---- MODULE Spec2Model ----
(***************************************************************************)
(* Model of the BrewOS demo-mode controller (lib/demo-mode) and of the     *)
(* browser state it reads and writes: the localStorage key                 *)
(* "brewos-demo-mode", window.location and window.history.                 *)
(*                                                                         *)
(* Strings that the code parses (the query string, the rewritten URL) are  *)
(* sequences of tokens: the separators "?", "&", "=" and the names and     *)
(* values between them.  Names and values are plain words without          *)
(* reserved characters, so percent-encoding never applies.  A JavaScript   *)
(* null is the empty sequence <<>>, a present string v is <<v>>.           *)
(*                                                                         *)
(* The second half models the demo statistics generator (lib/demo-stats):  *)
(* its loops run one iteration per step.  Math.random() reads a cyclic     *)
(* stream of values chosen at start; a draw r is kept as the integer       *)
(* 100 * r, and every real quantity is kept as an integer in a stated      *)
(* unit, so the arithmetic of the code is exact.                           *)
(***************************************************************************)
EXTENDS Integers, Sequences, FiniteSets, TLC

VARIABLES
    windowDefined,    \* typeof window !== "undefined"
    storageAvailable, \* localStorage can be used without throwing
    localStorage,     \* the durable store: a function from the keys present to their strings
    location,         \* window.location: [pathname, search, hash]
    historyLength,    \* window.history.length
    last,             \* the most recent call: [op, result, pre, post]
    prev,             \* the call before it, when nothing happened in between
    exitConsumed,     \* isDemoMode() took its exitDemo branch since the last navigation / explicit enable
    now,              \* demo-stats: `now`, seconds since the epoch, taken at module load
    tzOffset,         \* seconds the local time zone is ahead of UTC
    wallClock,        \* Date.now() / 1000 at the time of the calls
    seed,             \* the cyclic stream Math.random() reads, as integers 100 * r
    phase,            \* how many draws were taken, modulo the length of the stream
    pc,               \* where the generator is
    daysAgo,          \* loop variable of generateBrewHistory / generateDailyHistory
    iLoop,            \* the loop variable `i` of the shot loop / of generatePowerHistory
    numBrews,         \* generateBrewHistory: shots of the current day
    locals,           \* the locals of the latest loop iteration, before rounding
    brews,            \* generateBrewHistory: the array
    samples,          \* generatePowerHistory: the array
    summaries,        \* generateDailyHistory: the array
    charts,           \* generateWeeklyData / generateHourlyDistribution: the result
    wallMillis,       \* Date.now() % 1000 at the time of the calls
    logs,             \* what the latest getDemoLogs() returned
    earlier,          \* what the calls before the latest returned, kept by the caller
    stats,            \* what the latest generateDemoStats() returned
    isMobile,         \* Layout: usePWAInstall().isMobile
    isMobileLandscape, \* Layout: useMobileLandscape()
    listening,        \* Layout: handleScroll is a scroll listener of the container
    headerVisible,    \* Layout: the headerVisible state
    lastScrollY,      \* Layout: lastScrollY.current
    hasScrolled,      \* Layout: hasScrolled.current
    scrollTop,        \* Layout: mainScrollRef.current.scrollTop
    routePath,        \* Layout: location.pathname of the router
    lastEvent,        \* Layout: the most recent event and what it found
    testing,          \* PowerMeterSettings: the testing state
    mqttTopic,        \* PowerMeterSettings: the mqttTopic state
    clock,            \* PowerMeterSettings: time since the component mounted, in ticks
    timers,           \* PowerMeterSettings: the pending setTimeout callbacks of handleTestMqtt
    tests,            \* PowerMeterSettings: the tests started: [at, answered]
    lastTest          \* PowerMeterSettings: the most recent click on Test and what it did

ctlVars == <<windowDefined, storageAvailable, localStorage, location, historyLength,
             last, prev, exitConsumed>>
genVars == <<now, tzOffset, wallClock, seed, phase, pc, daysAgo, iLoop, numBrews, locals,
             brews, samples, summaries, charts>>
callVars == <<wallMillis, logs, earlier, stats>>
layoutVars == <<isMobile, isMobileLandscape, listening, headerVisible, lastScrollY,
                hasScrolled, scrollTop, routePath, lastEvent>>
meterVars == <<testing, mqttTopic, clock, timers, tests, lastTest>>
uiVars == <<callVars, layoutVars, meterVars>>
vars == <<ctlVars, genVars, uiVars>>

\* The largest window.history.length the model lets navigation reach.
MaxHistory == 3

DEMO_MODE_KEY == "brewos-demo-mode"

Null == <<>>
Some(v) == <<v>>

(***************************************************************************)
(* Strings as token sequences                                              *)
(***************************************************************************)
RECURSIVE Concat(_)
Concat(toks) == IF toks = <<>> THEN "" ELSE Head(toks) \o Concat(Tail(toks))

\* The position of the first token equal to tok, 0 when there is none.
IndexOf(toks, tok) ==
    IF \E i \in 1..Len(toks) : toks[i] = tok
    THEN CHOOSE i \in 1..Len(toks) :
            /\ toks[i] = tok
            /\ \A j \in 1..(i - 1) : toks[j] # tok
    ELSE 0

RECURSIVE SplitOn(_, _)
SplitOn(toks, sep) ==
    IF toks = <<>> THEN << <<>> >>
    ELSE LET rest == SplitOn(Tail(toks), sep) IN
         IF Head(toks) = sep
         THEN << <<>> >> \o rest
         ELSE << <<Head(toks)>> \o Head(rest) >> \o Tail(rest)

(***************************************************************************)
(* URLSearchParams                                                         *)
(***************************************************************************)
ParsePair(seg) ==
    LET i == IndexOf(seg, "=") IN
    IF i = 0
    THEN [name |-> Concat(seg), value |-> ""]
    ELSE [name  |-> Concat(SubSeq(seg, 1, i - 1)),
          value |-> Concat(SubSeq(seg, i + 1, Len(seg)))]

\* new URLSearchParams(search): a leading "?" is dropped, empty segments are skipped.
URLSearchParams(search) ==
    LET body == IF search # <<>> /\ Head(search) = "?" THEN Tail(search) ELSE search
        segs == SelectSeq(SplitOn(body, "&"), LAMBDA s : s # <<>>)
    IN  [i \in 1..Len(segs) |-> ParsePair(segs[i])]

\* params.get(name): the value of the first pair of that name, or null.
ParamsGet(params, name) ==
    LET hits == SelectSeq(params, LAMBDA p : p.name = name) IN
    IF hits = <<>> THEN Null ELSE Some(hits[1].value)

\* params.delete(name): every pair of that name is removed.
ParamsDelete(params, name) == SelectSeq(params, LAMBDA p : p.name # name)

\* params.toString(): name=value pairs joined by "&".
RECURSIVE ParamsToString(_)
ParamsToString(params) ==
    IF params = <<>> THEN <<>>
    ELSE LET p    == Head(params)
             pair == IF p.value = "" THEN <<p.name, "=">> ELSE <<p.name, "=", p.value>>
         IN  IF Tail(params) = <<>>
             THEN pair
             ELSE pair \o <<"&">> \o ParamsToString(Tail(params))

\* The comparison `x === "true"` the code applies to parameters and to the stored value.
IsTrueLiteral_nonNull(v) == v # Null
IsTrueLiteral_anyCase(v) == v \in {Some("true"), Some("TRUE")}
IsTrueLiteral(v) == v = Some("true")

(***************************************************************************)
(* localStorage                                                            *)
(***************************************************************************)
getItem(store, key) == IF key \in DOMAIN store THEN Some(store[key]) ELSE Null
setItem(store, key, value) ==
    [k \in DOMAIN store \cup {key} |-> IF k = key THEN value ELSE store[k]]
removeItem(store, key) == [k \in DOMAIN store \ {key} |-> store[k]]

(***************************************************************************)
(* The browser state a call sees, and what a call yields                   *)
(***************************************************************************)
Env == [window   |-> windowDefined,
        storeOk  |-> storageAvailable,
        store    |-> localStorage,
        location |-> location,
        length   |-> historyLength]

Return(e, value) == [env |-> e, result |-> value]
\* An uncaught exception: the state reached so far stays, the caller gets no value.
Throw(e) == [env |-> e, result |-> "threw"]

\* window.history.replaceState({}, "", url): the current entry's URL is replaced.
\* The URL is a relative reference "path?query": it carries no fragment.
ParseUrl(url) ==
    LET q == IndexOf(url, "?") IN
    IF q = 0
    THEN [pathname |-> Concat(url), search |-> <<>>, hash |-> ""]
    ELSE [pathname |-> Concat(SubSeq(url, 1, q - 1)),
          search   |-> IF q = Len(url) THEN <<>> ELSE SubSeq(url, q, Len(url)),
          hash     |-> ""]

replaceState_push(e, url) == [e EXCEPT !.location = ParseUrl(url), !.length = e.length + 1]
replaceState(e, url) == [e EXCEPT !.location = ParseUrl(url)]

(***************************************************************************)
(* lib/demo-mode                                                           *)
(***************************************************************************)
\* localStorage.setItem(DEMO_MODE_KEY, "true")
enableDemoMode_storesOne(e) ==
    IF ~e.storeOk THEN Throw(e)
    ELSE Return([e EXCEPT !.store = setItem(@, DEMO_MODE_KEY, "1")], "undefined")
enableDemoMode_toggles(e) ==
    IF ~e.storeOk THEN Throw(e)
    ELSE IF DEMO_MODE_KEY \in DOMAIN e.store
    THEN Return([e EXCEPT !.store = removeItem(@, DEMO_MODE_KEY)], "undefined")
    ELSE Return([e EXCEPT !.store = setItem(@, DEMO_MODE_KEY, "true")], "undefined")
enableDemoMode(e) ==
    IF ~e.storeOk THEN Throw(e)
    ELSE Return([e EXCEPT !.store = setItem(@, DEMO_MODE_KEY, "true")], "undefined")

\* localStorage.removeItem(DEMO_MODE_KEY)
disableDemoMode_setsFalse(e) ==
    IF ~e.storeOk THEN Throw(e)
    ELSE Return([e EXCEPT !.store = setItem(@, DEMO_MODE_KEY, "false")], "undefined")
disableDemoMode(e) ==
    IF ~e.storeOk THEN Throw(e)
    ELSE Return([e EXCEPT !.store = removeItem(@, DEMO_MODE_KEY)], "undefined")

\* The URL written back once exitDemo is deleted from params:
\* params.toString() ? `${pathname}?${params.toString()}` : pathname
ExitUrl_pathnameOnly(e, params) == <<e.location.pathname>>
ExitUrl(e, params) ==
    LET rest == ParamsDelete(params, "exitDemo") IN
    IF Concat(ParamsToString(rest)) # ""
    THEN <<e.location.pathname, "?">> \o ParamsToString(rest)
    ELSE <<e.location.pathname>>

initDemoModeFromUrl_fallsThrough(e) ==
    IF ~e.window THEN Return(e, "undefined")
    ELSE
    LET params == URLSearchParams(e.location.search)
        d      == IF IsTrueLiteral(ParamsGet(params, "exitDemo"))
                  THEN disableDemoMode(e) ELSE Return(e, "undefined")
        c      == IF IsTrueLiteral(ParamsGet(params, "exitDemo")) /\ d.result # "threw"
                  THEN replaceState(d.env, ExitUrl(e, params)) ELSE d.env
    IN  IF d.result = "threw" THEN d
        ELSE IF IsTrueLiteral(ParamsGet(params, "demo")) THEN enableDemoMode(c)
        ELSE Return(c, "undefined")
initDemoModeFromUrl(e) ==
    IF ~e.window THEN Return(e, "undefined")
    ELSE
    LET params == URLSearchParams(e.location.search) IN
    IF IsTrueLiteral(ParamsGet(params, "exitDemo"))
    THEN LET d == disableDemoMode(e) IN
         IF d.result = "threw" THEN d
         ELSE Return(replaceState(d.env, ExitUrl(e, params)), "undefined")
    ELSE IF IsTrueLiteral(ParamsGet(params, "demo"))
    THEN enableDemoMode(e)
    ELSE Return(e, "undefined")

\* The tail of isDemoMode(): the localStorage check.
StoredFlag(e) ==
    IF ~e.storeOk THEN Throw(e)
    ELSE IF IsTrueLiteral(getItem(e.store, DEMO_MODE_KEY))
    THEN Return(e, "true")
    ELSE Return(e, "false")

isDemoMode_demoFirst(e) ==
    IF ~e.window THEN StoredFlag(e)
    ELSE
    LET params == URLSearchParams(e.location.search) IN
    IF IsTrueLiteral(ParamsGet(params, "demo"))
    THEN LET en == enableDemoMode(e) IN
         IF en.result = "threw" THEN en ELSE Return(en.env, "true")
    ELSE IF IsTrueLiteral(ParamsGet(params, "exitDemo"))
    THEN LET d == disableDemoMode(e) IN
         IF d.result = "threw" THEN d
         ELSE Return(replaceState(d.env, ExitUrl(e, params)), "false")
    ELSE StoredFlag(e)
isDemoMode(e) ==
    IF ~e.window THEN StoredFlag(e)
    ELSE
    LET params == URLSearchParams(e.location.search) IN
    IF IsTrueLiteral(ParamsGet(params, "exitDemo"))
    THEN LET d == disableDemoMode(e) IN
         IF d.result = "threw" THEN d
         ELSE Return(replaceState(d.env, ExitUrl(e, params)), "false")
    ELSE IF IsTrueLiteral(ParamsGet(params, "demo"))
    THEN LET en == enableDemoMode(e) IN
         IF en.result = "threw" THEN en ELSE Return(en.env, "true")
    ELSE StoredFlag(e)

(***************************************************************************)
(* Inputs: the locations a user can open                                   *)
(***************************************************************************)
(***************************************************************************)
(* components/DemoBanner                                                   *)
(***************************************************************************)
\* window.location.href = url: a navigation.  It adds a history entry unless url
\* is the address already shown, which the browser replaces in place.
assignHref(e, url) ==
    LET target == ParseUrl(url) IN
    [e EXCEPT !.location = target,
              !.length = IF target = e.location THEN e.length ELSE e.length + 1]

\* handleExit: with an onExit callback the callback is called (it is the
\* caller's and touches nothing here); without one the page is sent to
\* url.pathname.  The url.searchParams.delete("demo") before it changes `url`
\* only, whose pathname is the one of the location.
handleExit_disables(e, onExit) ==
    IF onExit THEN Return(e, "undefined")
    ELSE Return(assignHref(disableDemoMode(e).env, <<e.location.pathname>>), "undefined")
handleExit(e, onExit) ==
    IF onExit THEN Return(e, "undefined")
    ELSE Return(assignHref(e, <<e.location.pathname>>), "undefined")

Pathnames == {"/", "/stats"}
Hashes == {"", "#brew"}
Queries ==
    { <<>>,
      <<"?", "demo", "=", "true">>,
      <<"?", "exitDemo", "=", "true">>,
      <<"?", "demo", "=", "true", "&", "exitDemo", "=", "true">>,
      <<"?", "exitDemo", "=", "true", "&", "demo", "=", "true">>,
      <<"?", "demo", "=", "1">>,
      <<"?", "demo">>,
      <<"?", "demo", "=", "TRUE">>,
      <<"?", "exitDemo", "=", "false">>,
      <<"?", "exitDemo", "=">>,
      <<"?", "demo", "=", "false", "&", "exitDemo", "=", "true">>,
      <<"?", "exitDemo", "=", "1", "&", "demo", "=", "true">>,
      <<"?", "exitDemo", "=", "1", "&", "exitDemo", "=", "true">>,
      <<"?", "exitDemo", "=", "true", "&", "exitDemo", "=", "1">>,
      <<"?", "tab", "=", "stats">>,
      <<"?", "tab", "=", "stats", "&", "exitDemo", "=", "true">>,
      <<"?", "exitDemo", "=", "true", "&", "tab", "=", "stats">>,
      <<"?", "tab", "=", "stats", "&", "demo", "=", "true">>,
      <<"?", "demo", "&", "exitDemo", "=", "true">> }
Urls == [pathname : Pathnames, search : Queries, hash : Hashes]

EmptyStore == [k \in {} |-> ""]
\* What earlier sessions of the application can have left in the store.
Stores == {EmptyStore, setItem(EmptyStore, DEMO_MODE_KEY, "true")}

NoLocation == [pathname |-> "", search |-> <<>>, hash |-> ""]
NoCall == [op |-> "none"]

(***************************************************************************)
(* State machine                                                           *)
(***************************************************************************)
\* No log was asked for, and no result is kept.
CallIdle ==
    /\ wallMillis = 0
    /\ logs = <<>>
    /\ earlier = <<>>
    /\ stats = <<>>

\* Layout is not mounted.
LayoutIdle ==
    /\ isMobile = FALSE
    /\ isMobileLandscape = FALSE
    /\ listening = FALSE
    /\ headerVisible = TRUE
    /\ lastScrollY = 0
    /\ hasScrolled = FALSE
    /\ scrollTop = 0
    /\ routePath = "/"
    /\ lastEvent = [type |-> "none"]

\* PowerMeterSettings is not mounted.
MeterIdle ==
    /\ testing = FALSE
    /\ mqttTopic = ""
    /\ clock = 0
    /\ timers = {}
    /\ tests = <<>>
    /\ lastTest = [sent |-> FALSE]

UiIdle == CallIdle /\ LayoutIdle /\ MeterIdle

\* The statistics generator has not been called.
GenIdle ==
    /\ now = 0
    /\ tzOffset = 0
    /\ wallClock = 0
    /\ seed = <<0>>
    /\ phase = 0
    /\ pc = "idle"
    /\ daysAgo = 0
    /\ iLoop = 0
    /\ numBrews = 0
    /\ locals = [kind |-> "none"]
    /\ brews = <<>>
    /\ samples = <<>>
    /\ summaries = <<>>
    /\ charts = <<>>

InitBrowser ==
    /\ GenIdle
    /\ UiIdle
    /\ windowDefined = TRUE
    /\ storageAvailable = TRUE
    /\ localStorage \in Stores
    /\ location \in Urls
    /\ historyLength = 1
    /\ last = NoCall
    /\ prev = NoCall
    /\ exitConsumed = FALSE

\* Any host: a window may be missing (no DOM), the store may be unusable.
InitHost ==
    /\ GenIdle
    /\ UiIdle
    /\ windowDefined \in BOOLEAN
    /\ storageAvailable \in BOOLEAN
    /\ localStorage \in (IF storageAvailable THEN Stores ELSE {EmptyStore})
    /\ location \in (IF windowDefined THEN Urls ELSE {NoLocation})
    /\ historyLength = (IF windowDefined THEN 1 ELSE 0)
    /\ last = NoCall
    /\ prev = NoCall
    /\ exitConsumed = FALSE

\* A call of `op` that yields r: the browser state becomes r.env and the call is recorded.
Call(op, r, consumed) ==
    /\ localStorage' = r.env.store
    /\ location' = r.env.location
    /\ historyLength' = r.env.length
    /\ last' = [op |-> op, result |-> r.result, pre |-> Env, post |-> r.env]
    /\ prev' = last
    /\ exitConsumed' = consumed
    /\ UNCHANGED <<windowDefined, storageAvailable>>
    /\ UNCHANGED genVars
    /\ UNCHANGED uiVars

\* isDemoMode() takes its exitDemo branch and returns.
TakesExit(e, r) ==
    /\ e.window
    /\ IsTrueLiteral(ParamsGet(URLSearchParams(e.location.search), "exitDemo"))
    /\ r.result # "threw"

IsDemoMode ==
    LET r == isDemoMode(Env) IN
    Call("isDemoMode", r, IF TakesExit(Env, r) THEN TRUE ELSE exitConsumed)

InitDemoModeFromUrl == Call("initDemoModeFromUrl", initDemoModeFromUrl(Env), FALSE)

EnableDemoMode == Call("enableDemoMode", enableDemoMode(Env), FALSE)

DisableDemoMode == Call("disableDemoMode", disableDemoMode(Env), exitConsumed)

\* The user opens another location: a new history entry, a fresh page.
Navigate ==
    /\ windowDefined
    /\ historyLength < MaxHistory
    /\ \E url \in Urls :
          /\ url # location
          /\ location' = url
    /\ historyLength' = historyLength + 1
    /\ last' = NoCall
    /\ prev' = NoCall
    /\ exitConsumed' = FALSE
    /\ UNCHANGED <<windowDefined, storageAvailable, localStorage>>
    /\ UNCHANGED genVars
    /\ UNCHANGED uiVars

\* The Exit button of the demo banner is clicked.
HandleExit ==
    /\ windowDefined
    /\ \E onExit \in BOOLEAN :
          LET r == handleExit(Env, onExit) IN
          /\ r.env.length <= MaxHistory
          /\ Call(IF onExit THEN "handleExit(onExit)" ELSE "handleExit()", r, FALSE)

Next ==
    \/ IsDemoMode
    \/ InitDemoModeFromUrl
    \/ EnableDemoMode
    \/ DisableDemoMode
    \/ Navigate
    \/ HandleExit

Spec == InitBrowser /\ [][Next]_vars
SpecHost == InitHost /\ [][Next]_vars

(***************************************************************************)
(* Vocabulary of the properties, stated on the raw strings and the store   *)
(* and not through the operators that model the code.                      *)
(***************************************************************************)
\* The positions of the query string where a parameter called name starts.
NamePositions(search, name) ==
    {i \in 1..Len(search) : search[i] = name /\ i > 1 /\ search[i - 1] \in {"?", "&"}}

HasParam(search, name) == NamePositions(search, name) # {}

\* The query string carries name=true: the parameter's (first) value is exactly "true".
CarriesTrue(search, name) ==
    /\ HasParam(search, name)
    /\ LET S == NamePositions(search, name)
           i == CHOOSE k \in S : \A j \in S : k <= j
       IN  /\ i + 2 <= Len(search)
           /\ search[i + 1] = "="
           /\ search[i + 2] = "true"
           /\ (i + 2 = Len(search) \/ search[i + 3] = "&")

FlagSet(store) == DEMO_MODE_KEY \in DOMAIN store /\ store[DEMO_MODE_KEY] = "true"
FlagAbsent(store) == DEMO_MODE_KEY \notin DOMAIN store

\* The visible location as one string.
Href(loc) == loc.pathname \o Concat(loc.search) \o loc.hash

BoolString(b) == IF b THEN "true" ELSE "false"

(***************************************************************************)
(* Properties                                                              *)
(***************************************************************************)

\* C1 - Exit precedence: whatever the durable flag was, a call of isDemoMode()
\* on a location whose query carries both demo=true and exitDemo=true returns
\* false and leaves the key absent from the store.
C1_ExitPrecedence ==
    ( /\ last.op = "isDemoMode"
      /\ CarriesTrue(last.pre.location.search, "demo")
      /\ CarriesTrue(last.pre.location.search, "exitDemo") )
    => ( /\ last.result = "false"
         /\ FlagAbsent(last.post.store)
         /\ FlagAbsent(localStorage) )

C1_Witness ==
    /\ last.op = "isDemoMode"
    /\ CarriesTrue(last.pre.location.search, "demo")
    /\ CarriesTrue(last.pre.location.search, "exitDemo")
    /\ FlagSet(last.pre.store)
    /\ last.result = "false"
    /\ FlagAbsent(localStorage)

\* C2 - No resurrection: once isDemoMode() has consumed exitDemo=true, and until
\* the next navigation or explicit enableDemoMode(), the flag stays cleared and
\* every isDemoMode() call returns false.
C2_NoResurrection ==
    exitConsumed
    => ( /\ FlagAbsent(localStorage)
         /\ (last.op = "isDemoMode" => last.result = "false") )

\* C3 - Idempotence of isDemoMode(): the second of two calls in a row returns
\* what the first returned and leaves the store and the visible location as the
\* first left them.
C3_IsDemoModeIdempotent ==
    (prev.op = "isDemoMode" /\ last.op = "isDemoMode")
    => ( /\ last.result = prev.result
         /\ last.post.store = prev.post.store
         /\ Href(last.post.location) = Href(prev.post.location) )

\* C4 - Fresh activation, as stated: with the flag absent and a location carrying
\* demo=true and no exitDemo=true, after initDemoModeFromUrl() then isDemoMode()
\* the call returned true, the flag is "true" and no demo parameter is left in
\* the visible location.
C4_FreshActivationStripsDemo ==
    ( /\ prev.op = "initDemoModeFromUrl"
      /\ last.op = "isDemoMode"
      /\ FlagAbsent(prev.pre.store)
      /\ CarriesTrue(prev.pre.location.search, "demo")
      /\ ~CarriesTrue(prev.pre.location.search, "exitDemo") )
    => ( /\ last.result = "true"
         /\ FlagSet(localStorage)
         /\ ~HasParam(location.search, "demo") )

\* C4 (amended) - Fresh activation: with the flag absent and a location carrying
\* demo=true and no exitDemo=true, after initDemoModeFromUrl() then isDemoMode()
\* the call returned true, the flag is "true", and the visible location is the
\* one the page was opened with: demo=true is still in it, nothing was rewritten.
C4_FreshActivation ==
    ( /\ prev.op = "initDemoModeFromUrl"
      /\ last.op = "isDemoMode"
      /\ FlagAbsent(prev.pre.store)
      /\ CarriesTrue(prev.pre.location.search, "demo")
      /\ ~CarriesTrue(prev.pre.location.search, "exitDemo") )
    => ( /\ last.result = "true"
         /\ FlagSet(prev.post.store)
         /\ FlagSet(localStorage)
         /\ CarriesTrue(location.search, "demo")
         /\ Href(location) = Href(prev.pre.location)
         /\ historyLength = prev.pre.length )

C4_Witness ==
    /\ prev.op = "initDemoModeFromUrl"
    /\ last.op = "isDemoMode"
    /\ FlagAbsent(prev.pre.store)
    /\ CarriesTrue(prev.pre.location.search, "demo")
    /\ ~HasParam(prev.pre.location.search, "exitDemo")
    /\ last.result = "true"
    /\ FlagSet(localStorage)

\* C5 - Exit cleans context: with the flag set and a location carrying
\* exitDemo=true, isDemoMode() returns false, clears the flag, leaves no exitDemo
\* parameter in the visible location, and rewrites the location in place: same
\* pathname, same number of history entries.
C5_ExitCleansContext ==
    ( /\ last.op = "isDemoMode"
      /\ FlagSet(last.pre.store)
      /\ CarriesTrue(last.pre.location.search, "exitDemo") )
    => ( /\ last.result = "false"
         /\ FlagAbsent(localStorage)
         /\ ~HasParam(location.search, "exitDemo")
         /\ location.pathname = last.pre.location.pathname
         /\ historyLength = last.pre.length )

C5_Witness ==
    /\ last.op = "isDemoMode"
    /\ FlagSet(last.pre.store)
    /\ CarriesTrue(last.pre.location.search, "exitDemo")
    /\ HasParam(last.pre.location.search, "tab")
    /\ last.result = "false"
    /\ FlagAbsent(localStorage)
    /\ HasParam(location.search, "tab")
    /\ historyLength = last.pre.length

\* C6 - Read-only query: on a location carrying neither demo=true nor
\* exitDemo=true, isDemoMode() returns the durable flag (true iff the key holds
\* "true") and changes neither the store, nor the location, nor the history.
C6_ReadOnlyQuery ==
    ( /\ last.op = "isDemoMode"
      /\ ~CarriesTrue(last.pre.location.search, "demo")
      /\ ~CarriesTrue(last.pre.location.search, "exitDemo") )
    => ( /\ last.result = BoolString(FlagSet(last.pre.store))
         /\ last.post.store = last.pre.store
         /\ last.post.location = last.pre.location
         /\ last.post.length = last.pre.length
         /\ localStorage = last.pre.store
         /\ location = last.pre.location
         /\ historyLength = last.pre.length )

\* The stable session: two calls in a row on a clean location with the flag set.
C6_Witness ==
    /\ prev.op = "isDemoMode"
    /\ last.op = "isDemoMode"
    /\ ~HasParam(prev.pre.location.search, "demo")
    /\ ~HasParam(prev.pre.location.search, "exitDemo")
    /\ FlagSet(prev.pre.store)
    /\ prev.result = "true"
    /\ last.result = "true"
    /\ FlagSet(localStorage)

\* C7 - enableDemoMode() and disableDemoMode() are unconditional and idempotent:
\* after enableDemoMode() the flag is "true" whatever it was, after
\* disableDemoMode() the key is absent whatever it was, a second call in a row
\* changes nothing, and neither touches the location or the history.
C7_EnableDisableIdempotent ==
    /\ last.op = "enableDemoMode"
       => ( /\ FlagSet(localStorage)
            /\ location = last.pre.location
            /\ historyLength = last.pre.length )
    /\ last.op = "disableDemoMode"
       => ( /\ FlagAbsent(localStorage)
            /\ location = last.pre.location
            /\ historyLength = last.pre.length )
    /\ (prev.op = last.op /\ last.op \in {"enableDemoMode", "disableDemoMode"})
       => last.post = prev.post

C7_Witness ==
    /\ prev.op = "enableDemoMode"
    /\ last.op = "enableDemoMode"
    /\ FlagAbsent(prev.pre.store)
    /\ FlagSet(prev.post.store)
    /\ FlagSet(localStorage)

\* C8 - Representation of the durable store: the key "brewos-demo-mode" is absent
\* or holds exactly "true", after any sequence of calls on any location.
C8_StoreRepresentation ==
    DEMO_MODE_KEY \in DOMAIN localStorage => localStorage[DEMO_MODE_KEY] = "true"

\* The key was written and then removed again by a call.
C8_Witness ==
    /\ last.op \in {"disableDemoMode", "isDemoMode", "initDemoModeFromUrl"}
    /\ prev.op \in {"enableDemoMode", "isDemoMode", "initDemoModeFromUrl"}
    /\ FlagAbsent(prev.pre.store)
    /\ FlagSet(last.pre.store)
    /\ FlagAbsent(localStorage)

\* C9 - Unavailable host defaults to inactive: when the window or the store is
\* unavailable, isDemoMode() returns false (it does not throw) and
\* initDemoModeFromUrl() returns without throwing.
C9_UnavailableHostInactive ==
    (~windowDefined \/ ~storageAvailable)
    => ( /\ last.op = "isDemoMode" => last.result = "false"
         /\ last.op = "initDemoModeFromUrl" => last.result = "undefined" )

\* C10 - Precedence in initDemoModeFromUrl(): with exitDemo=true it clears the
\* flag, removes exitDemo by rewriting the current history entry and returns
\* with the flag still clear even when demo=true is there too; else with
\* demo=true it sets the flag; otherwise it changes neither flag nor location.
C10_InitPrecedence ==
    last.op = "initDemoModeFromUrl"
    => IF CarriesTrue(last.pre.location.search, "exitDemo")
       THEN /\ FlagAbsent(localStorage)
            /\ ~HasParam(location.search, "exitDemo")
            /\ location.pathname = last.pre.location.pathname
            /\ historyLength = last.pre.length
            /\ last.result = "undefined"
       ELSE IF CarriesTrue(last.pre.location.search, "demo")
       THEN FlagSet(localStorage)
       ELSE /\ localStorage = last.pre.store
            /\ location = last.pre.location
            /\ historyLength = last.pre.length

C10_Witness ==
    /\ last.op = "initDemoModeFromUrl"
    /\ CarriesTrue(last.pre.location.search, "exitDemo")
    /\ CarriesTrue(last.pre.location.search, "demo")
    /\ FlagSet(last.pre.store)
    /\ FlagAbsent(localStorage)
    /\ CarriesTrue(location.search, "demo")
    /\ ~HasParam(location.search, "exitDemo")

(***************************************************************************)
(* lib/demo-stats: clock, random source, arithmetic                        *)
(***************************************************************************)
day == 86400
hour == 3600

\* The length of the cyclic stream of draws: for the day-by-day generators and
\* the charts, and for generatePowerHistory with its 288 iterations.
SeedLen == 4
PowerSeedLen == 3

\* The draws a stream is made of, as 100 * r: they fall on both sides of every
\* threshold the code tests a draw against (0.05, 0.1, 0.2, 0.25, 0.3, 0.36,
\* 0.4, 0.48, 0.6, 0.8, 0.85, 0.92) and give every value of each
\* Math.floor(r * 2) and Math.floor(r * 3).  On these draws double arithmetic
\* and the exact arithmetic of this module round and floor alike, but for the
\* kwhConsumed of a warm-up sample, where the double can lie just below an
\* exact tie (KwhBelowTie).
Grid == {0, 22, 55, 71, 98}
Seeds(len) == [1..len -> Grid]

\* Module-load instants, time zones and call times:
\* Fri 2025-10-31 08:00:00 UTC; Sun 2025-11-02 23:47:13 UTC seen from UTC+5:30,
\* called a day later; Sun 2025-11-09 03:10:00 UTC seen from UTC-7 (Saturday there).
Clocks ==
    { [now |-> 1761897600, tz |-> 0,      wall |-> 1761897600],
      [now |-> 1762127233, tz |-> 19800,  wall |-> 1762217233],
      [now |-> 1762657800, tz |-> -25200, wall |-> 1762657805] }

\* The n-th next value of Math.random(), as 100 * r.
Rnd(n) == seed[((phase + n - 1) % Len(seed)) + 1]
Drawn(n) == (phase + n) % Len(seed)

\* Math.floor(r * n) for the draw r = k / 100.
FloorMul(k, n) == (k * n) \div 100

\* Math.round(n / d): the nearest integer, halves upwards.
RoundDiv(n, d) == (2 * n + d) \div (2 * d)

\* Math.round(x) of a double x whose exact counterpart is n / d: when n / d is
\* a tie and the double lies just below it (`below`), the double rounds down.
RoundBelow(n, d, below) ==
    IF below /\ (2 * n) % (2 * d) = d THEN n \div d ELSE RoundDiv(n, d)

\* new Date(t * 1000).getDay(), .getHours(), .getMinutes() in the local zone.
GetDay(t) == (((t + tzOffset) \div day) + 4) % 7
GetHours(t) == ((t + tzOffset) % day) \div hour
GetMinutes(t) == ((t + tzOffset) % hour) \div 60

(***************************************************************************)
(* generateBrewHistory                                                     *)
(* Units: brewHour in 1/1000 h, doseWeight in 1/100 g and ratio in 1/1000  *)
(* before rounding; the record's weights, pressure, temperature, flow and  *)
(* ratio in tenths, as Math.round(x * 10) / 10 leaves them.                *)
(***************************************************************************)
BrewDays == 21

\* brewTimes, in tenths of an hour.
brewTimes == <<65, 70, 75, 80, 85, 90, 120, 125, 130, 140, 145, 150, 155, 160,
               170, 175, 180, 185, 190>>

\* numBrews of a day, from the draw r.
NumBrewsOf_weekendEight(d, dayOfWeek, r) ==
    LET isWeekend == dayOfWeek = 0 \/ dayOfWeek = 6
        isFriday  == dayOfWeek = 5
    IN  IF d = 0 THEN 3 + FloorMul(r, 3)
        ELSE IF isWeekend THEN 4 + FloorMul(r, 5)
        ELSE IF isFriday THEN 3 + FloorMul(r, 3)
        ELSE 2 + FloorMul(r, 4)
NumBrewsOf(d, dayOfWeek, r) ==
    LET isWeekend == dayOfWeek = 0 \/ dayOfWeek = 6
        isFriday  == dayOfWeek = 5
    IN  IF d = 0 THEN 3 + FloorMul(r, 3)
        ELSE IF isWeekend THEN 4 + FloorMul(r, 4)
        ELSE IF isFriday THEN 3 + FloorMul(r, 3)
        ELSE 2 + FloorMul(r, 4)

\* daysAgo > 0 && Math.random() < 0.05: the second draw is taken only when daysAgo > 0.
SkipsDay_alsoToday(d, r) == r < 5
SkipsDay(d, r) == d > 0 /\ r < 5
SkipDraws(d) == IF d > 0 THEN 1 ELSE 0

\* brewHour from hourRand and the draw of the branch taken.
BrewHourOf(hourRand, r) ==
    IF hourRand < 40 THEN 6500 + 25 * r
    ELSE IF hourRand < 60 THEN 14000 + 20 * r
    ELSE IF hourRand < 85 THEN 17000 + 20 * r
    ELSE 100 * brewTimes[FloorMul(r, Len(brewTimes)) + 1]

\* now - daysAgo * day - (24 - brewHour) * hour + Math.floor(Math.random() * 3600)
BrewTimestamp(d, brewHour, r) ==
    now - d * day - (((24000 - brewHour) * 36) \div 10) + FloorMul(r, 3600)

\* rating, from the draws of lines 117-118; only the draws reached are taken.
RatingOf_wide(r1, r2, r3) ==
    IF r1 < 25 THEN (IF r2 > 20 THEN 3 + FloorMul(r3, 3) ELSE 2) ELSE 0
RatingOf(r1, r2, r3) ==
    IF r1 < 25 THEN (IF r2 > 20 THEN 4 + FloorMul(r3, 2) ELSE 3) ELSE 0
RatingDraws(r1, r2) == IF r1 < 25 THEN (IF r2 > 20 THEN 3 ELSE 2) ELSE 1

\* The locals of one iteration of the shot loop, from the twelve next draws.
BrewLocals(d) ==
    LET brewHour   == BrewHourOf(Rnd(1), Rnd(2))
        doseWeight == 1700 + 4 * Rnd(5)
        ratio      == 1800 + 7 * Rnd(6)
    IN  [kind           |-> "shot",
         daysAgo        |-> d,
         brewHour       |-> brewHour,
         timestamp      |-> BrewTimestamp(d, brewHour, Rnd(3)),
         durationMs     |-> 25000 + FloorMul(Rnd(4), 10000),
         doseWeight     |-> doseWeight,
         ratio          |-> ratio,
         yieldWeight    |-> doseWeight * ratio,
         peakPressure   |-> 8200 + 18 * Rnd(7),
         avgTemperature |-> 92500 + 35 * Rnd(8),
         avgFlowRate    |-> 1800 + 12 * Rnd(9),
         rating         |-> RatingOf(Rnd(10), Rnd(11), Rnd(12)),
         draws          |-> 9 + RatingDraws(Rnd(10), Rnd(11))]

\* The object pushed: brews.push({...}) with every real rounded to one decimal.
BrewRecordOf_fromRounded(l) ==
    [timestamp      |-> l.timestamp,
     durationMs     |-> l.durationMs,
     yieldWeight    |-> RoundDiv(RoundDiv(l.doseWeight, 10) * RoundDiv(l.ratio, 100), 10),
     doseWeight     |-> RoundDiv(l.doseWeight, 10),
     peakPressure   |-> RoundDiv(l.peakPressure, 100),
     avgTemperature |-> RoundDiv(l.avgTemperature, 100),
     avgFlowRate    |-> RoundDiv(l.avgFlowRate, 100),
     rating         |-> l.rating,
     ratio          |-> RoundDiv(l.ratio, 100)]
BrewRecordOf(l) ==
    [timestamp      |-> l.timestamp,
     durationMs     |-> l.durationMs,
     yieldWeight    |-> RoundDiv(l.yieldWeight, 10000),
     doseWeight     |-> RoundDiv(l.doseWeight, 10),
     peakPressure   |-> RoundDiv(l.peakPressure, 100),
     avgTemperature |-> RoundDiv(l.avgTemperature, 100),
     avgFlowRate    |-> RoundDiv(l.avgFlowRate, 100),
     rating         |-> l.rating,
     ratio          |-> RoundDiv(l.ratio, 100)]

\* brews.sort((a, b) => b.timestamp - a.timestamp): a stable sort, latest first.
\* The place of list[i] after a stable sort with the comparator
\* (a, b) => b.timestamp - a.timestamp: behind every record with a later
\* timestamp and behind the records of the same timestamp that came before it.
SortRank(list, i) ==
    1 + Cardinality({j \in 1..Len(list) :
                        \/ list[j].timestamp > list[i].timestamp
                        \/ (list[j].timestamp = list[i].timestamp /\ j < i)})
SortDesc_unsorted(list) == list
SortDesc(list) ==
    LET rank == [i \in 1..Len(list) |-> SortRank(list, i)]
    IN  [k \in 1..Len(list) |-> list[CHOOSE i \in 1..Len(list) : rank[i] = k]]

(***************************************************************************)
(* The generator as a state machine                                        *)
(***************************************************************************)
\* The demo-mode controller is not involved while statistics are generated.
CtlIdle ==
    /\ windowDefined = TRUE
    /\ storageAvailable = TRUE
    /\ localStorage = setItem(EmptyStore, DEMO_MODE_KEY, "true")
    /\ location = [pathname |-> "/stats", search |-> <<>>, hash |-> ""]
    /\ historyLength = 1
    /\ last = NoCall
    /\ prev = NoCall
    /\ exitConsumed = FALSE

\* The module is loaded (now is taken) and one of the generators in `entry` is called.
InitGen(entry, len) ==
    /\ CtlIdle
    /\ UiIdle
    /\ \E c \in Clocks :
          /\ now = c.now
          /\ tzOffset = c.tz
          /\ wallClock = c.wall
    /\ seed \in Seeds(len)
    /\ phase = 0
    /\ pc \in entry
    /\ daysAgo = 0
    /\ iLoop = 0
    /\ numBrews = 0
    /\ locals = [kind |-> "none"]
    /\ brews = <<>>
    /\ samples = <<>>
    /\ summaries = <<>>
    /\ charts = <<>>

\* generateBrewHistory: the head of one iteration of the day loop (lines 48-73).
BrewDay ==
    /\ pc = "brewDay"
    /\ daysAgo < BrewDays
    /\ LET dayOfWeek == GetDay(now - daysAgo * day)
           n         == NumBrewsOf(daysAgo, dayOfWeek, Rnd(1))
           skip      == SkipsDay(daysAgo, Rnd(2))
       IN  /\ phase' = Drawn(1 + SkipDraws(daysAgo))
           /\ numBrews' = n
           /\ iLoop' = 0
           /\ locals' = [kind |-> "day", daysAgo |-> daysAgo, dayOfWeek |-> dayOfWeek,
                         numBrews |-> n, skipped |-> skip]
           /\ IF skip
              THEN /\ daysAgo' = daysAgo + 1
                   /\ pc' = "brewDay"
              ELSE /\ daysAgo' = daysAgo
                   /\ pc' = "brewShot"
    /\ UNCHANGED <<now, tzOffset, wallClock, seed, brews, samples, summaries, charts>>
    /\ UNCHANGED ctlVars
    /\ UNCHANGED uiVars

\* generateBrewHistory: one iteration of the shot loop (lines 75-132); after
\* the last shot of a day the day loop moves on.
BrewShot ==
    /\ pc = "brewShot"
    /\ iLoop < numBrews
    /\ LET l == BrewLocals(daysAgo)
       IN  /\ locals' = l
           /\ brews' = Append(brews, BrewRecordOf(l))
           /\ phase' = Drawn(l.draws)
    /\ iLoop' = iLoop + 1
    /\ IF iLoop + 1 < numBrews
       THEN /\ pc' = "brewShot"
            /\ daysAgo' = daysAgo
       ELSE /\ pc' = "brewDay"
            /\ daysAgo' = daysAgo + 1
    /\ UNCHANGED <<now, tzOffset, wallClock, seed, numBrews, samples, summaries, charts>>
    /\ UNCHANGED ctlVars
    /\ UNCHANGED uiVars

\* generateBrewHistory: the day loop is over, the array is sorted and returned.
BrewReturn ==
    /\ pc = "brewDay"
    /\ daysAgo = BrewDays
    /\ brews' = SortDesc(brews)
    /\ pc' = "brewDone"
    /\ UNCHANGED <<now, tzOffset, wallClock, seed, phase, daysAgo, iLoop, numBrews, locals,
                   samples, summaries, charts>>
    /\ UNCHANGED ctlVars
    /\ UNCHANGED uiVars

InitBrew == InitGen({"brewDay"}, SeedLen)
NextBrew ==
    \/ BrewDay
    \/ BrewShot
    \/ BrewReturn
SpecBrew == InitBrew /\ [][NextBrew]_vars

(***************************************************************************)
(* Properties of generateBrewHistory                                       *)
(***************************************************************************)
\* C11 - Brew-history shape: the list generateBrewHistory() returns is not
\* empty, every timestamp t in it satisfies now - 21 * 86400 <= t <= now, and
\* the timestamps never increase along the list.
C11_BrewHistoryShape ==
    pc = "brewDone"
    => ( /\ Len(brews) >= 1
         /\ \A k \in 1..Len(brews) :
               /\ now - 21 * 86400 <= brews[k].timestamp
               /\ brews[k].timestamp <= now
         /\ \A k \in 1..(Len(brews) - 1) : brews[k].timestamp >= brews[k + 1].timestamp )

\* A returned history with more records than days, one of them from the oldest
\* day, the first one from the latest day.
C11_Witness ==
    /\ pc = "brewDone"
    /\ Len(brews) > 21
    /\ \E k \in 1..Len(brews) : brews[k].timestamp < now - 20 * 86400
    /\ \E k \in 1..(Len(brews) - 1) : brews[k].timestamp > brews[k + 1].timestamp
    /\ brews[1].timestamp > now - 86400

\* C16 - Yield invariant, as stated: in every record of the history, yieldWeight
\* is the record's doseWeight times the record's ratio, rounded to one decimal.
C16_YieldFromRecordFields ==
    \A k \in 1..Len(brews) :
        brews[k].yieldWeight = RoundDiv(brews[k].doseWeight * brews[k].ratio, 10)

\* C16 (amended) - Yield invariant: the record pushed holds the drawn dose and
\* the drawn ratio each rounded to one decimal, and its yieldWeight is the
\* product of the drawn (unrounded) dose and ratio, rounded to one decimal.
C16_YieldFromDrawnValues ==
    (pc \in {"brewDay", "brewShot"} /\ locals.kind = "shot")
    => LET r == brews[Len(brews)] IN
       /\ r.doseWeight = RoundDiv(locals.doseWeight, 10)
       /\ r.ratio = RoundDiv(locals.ratio, 100)
       /\ r.yieldWeight = RoundDiv(locals.doseWeight * locals.ratio, 10000)

\* A record whose yield is not what its own rounded dose and ratio give.
C16_Witness ==
    /\ pc \in {"brewDay", "brewShot"}
    /\ locals.kind = "shot"
    /\ LET r == brews[Len(brews)] IN
       /\ r.yieldWeight = RoundDiv(locals.doseWeight * locals.ratio, 10000)
       /\ r.yieldWeight # RoundDiv(r.doseWeight * r.ratio, 10)
       /\ locals.doseWeight # 10 * r.doseWeight
       /\ locals.ratio # 100 * r.ratio

\* C20 - Rating domain: every record's rating is 0 or an integer in 1..5, in
\* fact one of 0, 3, 4, 5: 0 when the shot is not rated (one draw), 3 when it
\* is rated on the low branch (two draws), 4 or 5 on the high branch (three).
C20_RatingDomain ==
    /\ \A k \in 1..Len(brews) :
          /\ brews[k].rating \in {0} \cup (1..5)
          /\ brews[k].rating \in {0, 3, 4, 5}
    /\ (pc \in {"brewDay", "brewShot"} /\ locals.kind = "shot")
       => LET rating == brews[Len(brews)].rating IN
          /\ locals.draws = 10 => rating = 0
          /\ locals.draws = 11 => rating = 3
          /\ locals.draws = 12 => rating \in {4, 5}

\* One history in which all four ratings occur.
C20_Witness ==
    /\ pc = "brewDone"
    /\ {brews[k].rating : k \in 1..Len(brews)} = {0, 3, 4, 5}

(***************************************************************************)
(* generatePowerHistory                                                    *)
(* Units: hours of the day in minutes, intensity in percent, watts in      *)
(* 1/100 W and kwhConsumed in 1/1200000 kWh before rounding (so that       *)
(* avgWatts * 300 / 3600000 is avgWatts itself); in a sample, watts in W   *)
(* and kwhConsumed in 1/10000 kWh, as Math.round leaves them.              *)
(***************************************************************************)
intervalSeconds == 300
numSamples == 288

usageSessions ==
    << [startHour |-> 390,  duration |-> 150, intensity |-> 80],
       [startHour |-> 840,  duration |-> 120, intensity |-> 50],
       [startHour |-> 1080, duration |-> 120, intensity |-> 60] >>

\* now - i * intervalSeconds
PowerTimestamp_reversed(k) == now - (numSamples - 1 - k) * intervalSeconds
PowerTimestamp_late(k) == now - (k + 1) * intervalSeconds
PowerTimestamp_callTime(k) == wallClock - k * intervalSeconds
PowerTimestamp(k) == now - k * intervalSeconds

\* date.getHours() + date.getMinutes() / 60
HourOfDay(t) == GetHours(t) * 60 + GetMinutes(t)

\* The first session the hour falls in (0: none), lines 168-178.
SessionAt(hourOfDay) ==
    IF \E n \in 1..Len(usageSessions) :
          /\ hourOfDay >= usageSessions[n].startHour
          /\ hourOfDay < usageSessions[n].startHour + usageSessions[n].duration
    THEN CHOOSE n \in 1..Len(usageSessions) :
          /\ hourOfDay >= usageSessions[n].startHour
          /\ hourOfDay < usageSessions[n].startHour + usageSessions[n].duration
    ELSE 0

\* minutesIntoSession < 20.  In double arithmetic (hourOfDay - startHour) * 60
\* falls just short of 20 at 06:50 and at 18:20 (19.99999999999998), so these
\* two instants still count as warm-up, with warmupProgress 1 to 13 decimals;
\* at 14:20 the product is exactly 20.
InWarmup(hourOfDay, n) ==
    LET m == hourOfDay - usageSessions[n].startHour IN
    m < 20 \/ (m = 20 /\ usageSessions[n].startHour \in {390, 1080})

\* Lines 184-187 in double arithmetic.  At 06:37, 06:40, 14:01, 14:07, 14:16,
\* 18:07 and 18:10 the double (hourOfDay - startHour) * 60 lies just above the
\* whole minute (10.000000000000018 at 06:40) and avgWatts comes out just
\* below its exact value (1364.9999999999995 for 1365 on the draw 0.55).
\* Exactly, kwhConsumed * 10000 is a tie at the minutes 1, 4, 7, ..., 19 on an
\* odd draw (in 1/100); on the draws of Grid the double lies below the tie at
\* the minutes named here and on or above it at the others.
KwhBelowTie(startHour, m) ==
    \/ startHour = 390 /\ m \in {7, 10}
    \/ startHour = 840 /\ m \in {1, 7, 16}
    \/ startHour = 1080 /\ m \in {7, 10}

\* The branch of lines 184-232 an iteration takes; random is its first draw.
PowerBranch(hourOfDay, random) ==
    LET n == SessionAt(hourOfDay) IN
    IF n # 0
    THEN IF InWarmup(hourOfDay, n) THEN "warmup"
         ELSE IF random < usageSessions[n].intensity
         THEN (IF 10 * random < 6 * usageSessions[n].intensity THEN "brewing" ELSE "idleHot")
         ELSE "cooling"
    ELSE IF hourOfDay >= 22 * 60 \/ hourOfDay < 5 * 60 THEN "night"
    ELSE IF random > 92 THEN "spike"
    ELSE "standby"

\* Math.random() calls of an iteration.
PowerDraws(branch) ==
    CASE branch \in {"warmup", "night"} -> 2
      [] branch \in {"brewing", "idleHot", "cooling", "spike"} -> 3
      [] OTHER -> 1

\* avgWatts and maxWatts of a branch; m is minutesIntoSession, r1 and r2 the draws.
PowerWatts_nightMaxFromOne(branch, m, r1, r2) ==
    CASE branch = "warmup"  -> [avgWatts |-> 140000 - 2000 * m + 300 * r1,
                                maxWatts |-> 200000 - 1500 * m + 200 * r2]
      [] branch = "brewing" -> [avgWatts |-> 120000 + 500 * r1, maxWatts |-> 180000 + 400 * r2]
      [] branch = "idleHot" -> [avgWatts |-> 25000 + 200 * r1, maxWatts |-> 50000 + 250 * r2]
      [] branch = "cooling" -> [avgWatts |-> 10000 + 100 * r1, maxWatts |-> 25000 + 150 * r2]
      [] branch = "night"   -> [avgWatts |-> 100 + 2 * r1, maxWatts |-> 100 + 3 * r2]
      [] branch = "spike"   -> [avgWatts |-> 15000 + 150 * r1, maxWatts |-> 30000 + 200 * r2]
      [] OTHER              -> [avgWatts |-> 200, maxWatts |-> 500]
PowerWatts(branch, m, r1, r2) ==
    CASE branch = "warmup"  -> [avgWatts |-> 140000 - 2000 * m + 300 * r1,
                                maxWatts |-> 200000 - 1500 * m + 200 * r2]
      [] branch = "brewing" -> [avgWatts |-> 120000 + 500 * r1, maxWatts |-> 180000 + 400 * r2]
      [] branch = "idleHot" -> [avgWatts |-> 25000 + 200 * r1, maxWatts |-> 50000 + 250 * r2]
      [] branch = "cooling" -> [avgWatts |-> 10000 + 100 * r1, maxWatts |-> 25000 + 150 * r2]
      [] branch = "night"   -> [avgWatts |-> 100 + 2 * r1, maxWatts |-> 300 + 3 * r2]
      [] branch = "spike"   -> [avgWatts |-> 15000 + 150 * r1, maxWatts |-> 30000 + 200 * r2]
      [] OTHER              -> [avgWatts |-> 200, maxWatts |-> 500]

\* kwhConsumed: (avgWatts * 300) / 3600000 where the branch derives it, the
\* literals 0.0001 (initial value, kept on standby) and 0.00005 (night) otherwise.
PowerKwh_alwaysDerived(branch, avgWatts) == avgWatts
PowerKwh(branch, avgWatts) ==
    CASE branch = "standby" -> 120
      [] branch = "night"   -> 60
      [] OTHER              -> avgWatts

\* The locals of the iteration for i = k.
PowerLocals(k) ==
    LET timestamp == PowerTimestamp(k)
        hourOfDay == HourOfDay(timestamp)
        n         == SessionAt(hourOfDay)
        branch    == PowerBranch(hourOfDay, Rnd(1))
        m         == IF n = 0 THEN 0 ELSE hourOfDay - usageSessions[n].startHour
        first     == IF branch \in {"warmup", "night"} THEN 1 ELSE 2
        w         == PowerWatts(branch, m, Rnd(first), Rnd(first + 1))
    IN  [kind               |-> "sample",
         i                  |-> k,
         timestamp          |-> timestamp,
         hourOfDay          |-> hourOfDay,
         inSession          |-> n # 0,
         minutesIntoSession |-> m,
         branch             |-> branch,
         avgWatts           |-> w.avgWatts,
         maxWatts           |-> w.maxWatts,
         kwhConsumed        |-> PowerKwh(branch, w.avgWatts),
         belowTie           |-> branch = "warmup" /\ KwhBelowTie(usageSessions[n].startHour, m),
         draws              |-> PowerDraws(branch)]

\* samples.push({...}), lines 234-239.
PowerSampleOf(l) ==
    [timestamp   |-> l.timestamp,
     avgWatts    |-> RoundDiv(l.avgWatts, 100),
     maxWatts    |-> RoundDiv(l.maxWatts, 100),
     kwhConsumed |-> RoundBelow(l.kwhConsumed, 120, l.belowTie)]

\* generatePowerHistory is entered: lines 143-158.
PowerStart ==
    /\ pc = "powerStart"
    /\ samples' = <<>>
    /\ iLoop' = numSamples - 1
    /\ pc' = "powerLoop"
    /\ UNCHANGED <<now, tzOffset, wallClock, seed, phase, daysAgo, numBrews, locals,
                   brews, summaries, charts>>
    /\ UNCHANGED ctlVars
    /\ UNCHANGED uiVars

\* One iteration of the sample loop; after i = 0 the array is returned.
PowerStep ==
    /\ pc = "powerLoop"
    /\ iLoop >= 0
    /\ LET l == PowerLocals(iLoop)
       IN  /\ locals' = l
           /\ samples' = Append(samples, PowerSampleOf(l))
           /\ phase' = Drawn(l.draws)
    /\ iLoop' = iLoop - 1
    /\ pc' = IF iLoop - 1 >= 0 THEN "powerLoop" ELSE "powerDone"
    /\ UNCHANGED <<now, tzOffset, wallClock, seed, daysAgo, numBrews, brews, summaries, charts>>
    /\ UNCHANGED ctlVars
    /\ UNCHANGED uiVars

InitPower == InitGen({"powerStart"}, PowerSeedLen)
NextPower ==
    \/ PowerStart
    \/ PowerStep
SpecPower == InitPower /\ [][NextPower]_vars

\* The sample the current iteration pushed.
LastSample == samples[Len(samples)]
SamplePushed == pc \in {"powerLoop", "powerDone"} /\ samples # <<>> /\ locals.kind = "sample"

\* C12: the returned power history holds exactly 288 samples, consecutive
\* timestamps rise by exactly 300 seconds, and in every sample the rounded
\* maxWatts is at least the rounded avgWatts.
C12_PowerHistoryShape ==
    /\ pc = "powerDone" => Len(samples) = 288
    /\ \A k \in 1..(Len(samples) - 1) : samples[k + 1].timestamp = samples[k].timestamp + 300
    /\ \A k \in 1..Len(samples) : samples[k].maxWatts >= samples[k].avgWatts
C12_Witness ==
    /\ pc = "powerDone"
    /\ Len(samples) = 288
    /\ \E k \in 1..Len(samples) : samples[k].avgWatts >= 1000
    /\ \E k \in 1..Len(samples) : samples[k].avgWatts <= 3

\* C13 (as stated): the first returned sample is at now - 86400 and the last at now.
C13_WindowFromDayAgo ==
    pc = "powerDone" =>
        /\ samples[1].timestamp = now - 86400
        /\ samples[Len(samples)].timestamp = now
\* C13 (amended): the first returned sample is at now - 287 * 300 = now - 86100,
\* one interval short of 24 hours, and the last at now.
C13_Window ==
    pc = "powerDone" =>
        /\ samples[1].timestamp = now - 86100
        /\ samples[Len(samples)].timestamp = now
C13_Witness ==
    /\ pc = "powerDone"
    /\ samples[1].timestamp = now - 86400 + 300
    /\ samples[288].timestamp = now

\* C17: in every branch (warm-up, brewing, idle-hot, cooling, night standby,
\* off-schedule spike, default standby) the kwhConsumed of the sample is the
\* avgWatts the sample is built from, times 300 / 3600000, rounded to four
\* decimals: to the nearest 1/10000 kWh, and where the exact value is a tie, up,
\* unless the double avgWatts lies below its exact value, then down.
C17_KwhDerivedInEveryBranch ==
    SamplePushed =>
        IF (locals.avgWatts * 3) % 360 = 180 /\ locals.belowTie
        THEN LastSample.kwhConsumed = (locals.avgWatts * 3 - 180) \div 360
        ELSE LastSample.kwhConsumed = (2 * (locals.avgWatts * 3) + 360) \div (2 * 360)

\* The bands of a branch in 1/100 W: avgWatts in [avgLo, avgHi), maxWatts in [maxLo, maxHi).
WattBands ==
    [warmup  |-> [avgLo |-> 100000, avgHi |-> 170000, maxLo |-> 170000, maxHi |-> 220000],
     brewing |-> [avgLo |-> 120000, avgHi |-> 170000, maxLo |-> 180000, maxHi |-> 220000],
     idleHot |-> [avgLo |-> 25000,  avgHi |-> 45000,  maxLo |-> 50000,  maxHi |-> 75000],
     cooling |-> [avgLo |-> 10000,  avgHi |-> 20000,  maxLo |-> 25000,  maxHi |-> 40000],
     night   |-> [avgLo |-> 100,    avgHi |-> 300,    maxLo |-> 300,    maxHi |-> 600],
     spike   |-> [avgLo |-> 15000,  avgHi |-> 30000,  maxLo |-> 30000,  maxHi |-> 50000],
     standby |-> [avgLo |-> 200,    avgHi |-> 201,    maxLo |-> 500,    maxHi |-> 501]]

\* C18 (as stated): every emitted sample has maxWatts strictly above avgWatts.
C18_EmittedMaxAboveAvg ==
    \A k \in 1..Len(samples) : samples[k].maxWatts > samples[k].avgWatts
\* C18 (amended): in every branch the maxWatts band starts no lower than the
\* avgWatts band ends and the unrounded maxWatts is strictly above the unrounded
\* avgWatts; the emitted values are rounded to whole watts, so an emitted sample
\* has maxWatts >= avgWatts, and equality happens.
C18_BandsAndRounding ==
    SamplePushed =>
        LET b == WattBands[locals.branch] IN
        /\ b.avgLo <= locals.avgWatts /\ locals.avgWatts < b.avgHi
        /\ b.maxLo <= locals.maxWatts /\ locals.maxWatts < b.maxHi
        /\ b.avgHi <= b.maxLo
        /\ locals.maxWatts > locals.avgWatts
        /\ LastSample.maxWatts >= LastSample.avgWatts
C18_Witness ==
    /\ SamplePushed
    /\ locals.maxWatts > locals.avgWatts
    /\ LastSample.maxWatts = LastSample.avgWatts

(***************************************************************************)
(* generateDailyHistory                                                    *)
(* Units: totalKwh in 1/10000 kWh (the zero-shot summary is not rounded,   *)
(* the other is rounded to 1/100 kWh), probabilities in percent.           *)
(***************************************************************************)
DailyDays == 30

CeilDiv(n, d) == (n + d - 1) \div d

\* Math.floor(date / day) * day
MidnightOf(date) == (date \div day) * day

\* baseShots, lines 261-271.
BaseShotsOf(dayOfWeek, r) ==
    IF dayOfWeek = 0 \/ dayOfWeek = 6 THEN 4 + FloorMul(r, 3)
    ELSE IF dayOfWeek = 5 THEN 3 + FloorMul(r, 2)
    ELSE 2 + FloorMul(r, 3)

\* daysAgo > 0 && Math.random() < 0.1: the draw is taken only when daysAgo > 0.
NoUsage(d, r) == d > 0 /\ r < 10

\* The locals of the iteration for daysAgo = d, in the order the draws are made.
DailyLocals(d) ==
    LET date      == now - d * day
        midnight  == MidnightOf(date)
        dayOfWeek == GetDay(midnight)
        isWeekend == dayOfWeek = 0 \/ dayOfWeek = 6
        baseShots == BaseShotsOf(dayOfWeek, Rnd(1))
        o         == IF d > 0 THEN 2 ELSE 1
        noUsage   == NoUsage(d, Rnd(2))
        shotCount == IF noUsage THEN 0
                     ELSE baseShots + (IF d = 0 THEN 2 ELSE 0) + FloorMul(Rnd(o + 1), 2)
    IN  IF shotCount = 0
        THEN [kind |-> "summary", daysAgo |-> d, midnight |-> midnight,
              dayOfWeek |-> dayOfWeek, baseShots |-> baseShots, noUsage |-> noUsage,
              shotCount |-> 0, totalBrewTimeMs |-> 0, avgBrewTimeMs |-> 0,
              totalKwh |-> 500 + 5 * Rnd(o + 1),
              onTimeMinutes |-> FloorMul(Rnd(o + 2), 20),
              steamCycles |-> 0,
              draws |-> o + 2]
        ELSE
          LET avgBrewTimeMs   == 27000 + FloorMul(Rnd(o + 2), 6000)
              totalBrewTimeMs == shotCount * avgBrewTimeMs
              baseKwh         == 2500 + 15 * Rnd(o + 3)
              perShotKwh      == 600 + 4 * Rnd(o + 4)
              sessionBonus    == IF shotCount > 4 THEN (shotCount - 4) * 200 ELSE 0
              totalKwh        == baseKwh + shotCount * perShotKwh + sessionBonus
                                 + 15 * Rnd(o + 5)
              warmupMinutes   == 15 + FloorMul(Rnd(o + 6), 10)
              brewTimeMinutes == CeilDiv(totalBrewTimeMs, 60000)
              j               == IF shotCount > 1 THEN 1 ELSE 0
              idleMinutes     == IF shotCount > 1
                                 THEN (shotCount - 1) * (10 + FloorMul(Rnd(o + 7), 10))
                                 ELSE 0
              onTimeMinutes   == warmupMinutes + brewTimeMinutes + idleMinutes
                                 + FloorMul(Rnd(o + 7 + j), 20)
              steamProbability == IF isWeekend THEN 60 ELSE 30
              steamCycles     == IF Rnd(o + 8 + j) < steamProbability
                                 THEN FloorMul(Rnd(o + 9 + j), IF shotCount > 3 THEN 4 ELSE 2) + 1
                                 ELSE FloorMul(Rnd(o + 9 + j), 2)
          IN [kind |-> "summary", daysAgo |-> d, midnight |-> midnight,
              dayOfWeek |-> dayOfWeek, baseShots |-> baseShots, noUsage |-> noUsage,
              shotCount |-> shotCount, totalBrewTimeMs |-> totalBrewTimeMs,
              avgBrewTimeMs |-> avgBrewTimeMs,
              totalKwh |-> 100 * RoundDiv(totalKwh, 100),
              onTimeMinutes |-> onTimeMinutes,
              steamCycles |-> steamCycles,
              draws |-> o + 9 + j]

\* summaries.push({...}), lines 283-291 and 328-336.
SummaryOf(l) ==
    [date            |-> l.midnight,
     shotCount       |-> l.shotCount,
     totalBrewTimeMs |-> l.totalBrewTimeMs,
     totalKwh        |-> l.totalKwh,
     onTimeMinutes   |-> l.onTimeMinutes,
     steamCycles     |-> l.steamCycles,
     avgBrewTimeMs   |-> l.avgBrewTimeMs]

\* Array.prototype.reverse
Reverse_kept(q) == q
Reverse(q) == [k \in 1..Len(q) |-> q[Len(q) + 1 - k]]

\* generateDailyHistory: one iteration of the day loop (lines 251-337).
DailyDay ==
    /\ pc = "dailyLoop"
    /\ daysAgo < DailyDays
    /\ LET l == DailyLocals(daysAgo)
       IN  /\ locals' = l
           /\ summaries' = Append(summaries, SummaryOf(l))
           /\ phase' = Drawn(l.draws)
    /\ daysAgo' = daysAgo + 1
    /\ UNCHANGED <<now, tzOffset, wallClock, seed, pc, iLoop, numBrews, brews, samples, charts>>
    /\ UNCHANGED ctlVars
    /\ UNCHANGED uiVars

\* generateDailyHistory: the loop is over, the array is reversed and returned.
DailyReturn ==
    /\ pc = "dailyLoop"
    /\ daysAgo = DailyDays
    /\ summaries' = Reverse(summaries)
    /\ pc' = "dailyDone"
    /\ UNCHANGED <<now, tzOffset, wallClock, seed, phase, daysAgo, iLoop, numBrews, locals,
                   brews, samples, charts>>
    /\ UNCHANGED ctlVars
    /\ UNCHANGED uiVars

InitDaily == InitGen({"dailyLoop"}, SeedLen)
NextDaily ==
    \/ DailyDay
    \/ DailyReturn
SpecDaily == InitDaily /\ [][NextDaily]_vars

\* C14: the returned daily history holds exactly 30 summaries whose dates rise
\* by exactly 86400 seconds; a summary with shotCount 0 has totalBrewTimeMs 0
\* and avgBrewTimeMs 0, and any other has totalBrewTimeMs = shotCount * avgBrewTimeMs.
C14_DailyHistoryShape ==
    /\ pc = "dailyDone" =>
          /\ Len(summaries) = 30
          /\ \A k \in 1..(Len(summaries) - 1) : summaries[k + 1].date = summaries[k].date + 86400
    /\ \A k \in 1..Len(summaries) :
          IF summaries[k].shotCount = 0
          THEN summaries[k].totalBrewTimeMs = 0 /\ summaries[k].avgBrewTimeMs = 0
          ELSE /\ summaries[k].shotCount > 0
               /\ summaries[k].avgBrewTimeMs >= 27000
               /\ summaries[k].totalBrewTimeMs = summaries[k].shotCount * summaries[k].avgBrewTimeMs
C14_Witness ==
    /\ pc = "dailyDone"
    /\ Len(summaries) = 30
    /\ \E k \in 1..Len(summaries) : summaries[k].shotCount = 0
    /\ \E k \in 1..Len(summaries) : summaries[k].shotCount > 4
    /\ summaries[1].date < summaries[30].date

\* Both generators that treat today apart: the brew history and the daily history.
InitToday == InitGen({"brewDay", "dailyLoop"}, SeedLen)
NextToday ==
    \/ NextBrew
    \/ NextDaily
SpecToday == InitToday /\ [][NextToday]_vars

\* C19: today is never a zero-shot day: the last daily summary (daysAgo = 0)
\* has shotCount > 0, and the brew history never skips daysAgo = 0, which
\* contributes at least 3 records.
C19_TodayNeverZeroShot ==
    /\ pc = "dailyDone" => summaries[Len(summaries)].shotCount > 0
    /\ (pc = "dailyLoop" /\ daysAgo >= 1) => summaries[1].shotCount > 0
    /\ (locals.kind = "day" /\ locals.daysAgo = 0) => ~locals.skipped /\ locals.numBrews >= 3
    /\ (pc = "brewDay" /\ daysAgo >= 1) => Len(brews) >= 3
    /\ pc = "brewDone" =>
          Cardinality({k \in 1..Len(brews) : brews[k].timestamp > now - day}) >= 3
\* The draw that would decide a skip of today is below both thresholds.
C19_Witness ==
    /\ seed[2] = 0
    /\ \/ /\ pc = "dailyDone"
          /\ summaries[30].shotCount > 0
          /\ \E k \in 1..29 : summaries[k].shotCount = 0
       \/ /\ pc = "brewDone"
          /\ Cardinality({k \in 1..Len(brews) : brews[k].timestamp > now - day}) \in 3..5
          /\ Cardinality({k \in 1..Len(brews) : brews[k].timestamp <= now - day}) > 0

(***************************************************************************)
(* generateWeeklyData and generateHourlyDistribution, called one after the *)
(* other by getDemoExtendedStats (lines 483-484).                          *)
(***************************************************************************)
days == <<"Mon", "Tue", "Wed", "Thu", "Fri", "Sat", "Sun">>

hourPatterns ==
    [h \in 6..20 |-> <<3, 12, 15, 8, 4, 2, 3, 2, 5, 7, 4, 3, 4, 2, 1>>[h - 5]]

Max(a, b) == IF a >= b THEN a ELSE b

\* The callback of days.map for one index (0-based), lines 351-361; today is
\* new Date().getDay().  No draw is made for today's entry.
WeeklyLocals_unshifted(index, today) ==
    LET dayIndex  == index % 7
        isWeekend == dayIndex = 6 \/ dayIndex = 0
        baseShots == IF isWeekend THEN 5 ELSE 3
        variance  == FloorMul(Rnd(1), 3) - 1
    IN  IF dayIndex = today
        THEN [kind |-> "weekly", today |-> today, dayIndex |-> dayIndex, isToday |-> TRUE,
              baseShots |-> 3, variance |-> 0, shots |-> 3, draws |-> 0]
        ELSE [kind |-> "weekly", today |-> today, dayIndex |-> dayIndex, isToday |-> FALSE,
              baseShots |-> baseShots, variance |-> variance,
              shots |-> Max(1, baseShots + variance), draws |-> 1]
WeeklyLocals(index, today) ==
    LET dayIndex  == (index + 1) % 7
        isWeekend == dayIndex = 6 \/ dayIndex = 0
        baseShots == IF isWeekend THEN 5 ELSE 3
        variance  == FloorMul(Rnd(1), 3) - 1
    IN  IF dayIndex = today
        THEN [kind |-> "weekly", today |-> today, dayIndex |-> dayIndex, isToday |-> TRUE,
              baseShots |-> 3, variance |-> 0, shots |-> 3, draws |-> 0]
        ELSE [kind |-> "weekly", today |-> today, dayIndex |-> dayIndex, isToday |-> FALSE,
              baseShots |-> baseShots, variance |-> variance,
              shots |-> Max(1, baseShots + variance), draws |-> 1]

\* count: Math.max(0, baseCount + variance), line 395.
HourlyCountOf_unclamped(baseCount, variance) == baseCount + variance
HourlyCountOf(baseCount, variance) == Max(0, baseCount + variance)

\* The body of the hour loop, lines 391-396.
HourlyLocals(h) ==
    LET baseCount == IF h \in DOMAIN hourPatterns THEN hourPatterns[h] ELSE 0
        variance  == FloorMul(Rnd(1), 3) - 1
    IN  [kind |-> "hourly", hour |-> h, baseCount |-> baseCount, variance |-> variance,
         count |-> HourlyCountOf(baseCount, variance), draws |-> 1]

\* generateWeeklyData is entered: lines 347-348.
WeeklyStart ==
    /\ pc = "weeklyStart"
    /\ locals' = [kind |-> "weekly", today |-> GetDay(wallClock)]
    /\ charts' = [weekly |-> <<>>, hourlyDistribution |-> <<>>]
    /\ iLoop' = 0
    /\ pc' = "weeklyMap"
    /\ UNCHANGED <<now, tzOffset, wallClock, seed, phase, daysAgo, numBrews, brews, samples,
                   summaries>>
    /\ UNCHANGED ctlVars
    /\ UNCHANGED uiVars

\* One call of the days.map callback.
WeeklyEntry ==
    /\ pc = "weeklyMap"
    /\ iLoop < Len(days)
    /\ LET l == WeeklyLocals(iLoop, locals.today)
       IN  /\ locals' = l
           /\ charts' = [charts EXCEPT !.weekly =
                            Append(@, [day |-> days[iLoop + 1], shots |-> l.shots])]
           /\ phase' = Drawn(l.draws)
    /\ iLoop' = iLoop + 1
    /\ UNCHANGED <<now, tzOffset, wallClock, seed, pc, daysAgo, numBrews, brews, samples,
                   summaries>>
    /\ UNCHANGED ctlVars
    /\ UNCHANGED uiVars

\* generateWeeklyData returns and generateHourlyDistribution is entered.
HourlyStart ==
    /\ pc = "weeklyMap"
    /\ iLoop = Len(days)
    /\ iLoop' = 0
    /\ pc' = "hourlyLoop"
    /\ UNCHANGED <<now, tzOffset, wallClock, seed, phase, daysAgo, numBrews, locals, brews,
                   samples, summaries, charts>>
    /\ UNCHANGED ctlVars
    /\ UNCHANGED uiVars

\* One iteration of the hour loop, lines 390-397.
HourlyEntry ==
    /\ pc = "hourlyLoop"
    /\ iLoop < 24
    /\ LET l == HourlyLocals(iLoop)
       IN  /\ locals' = l
           /\ charts' = [charts EXCEPT !.hourlyDistribution =
                            Append(@, [hour |-> l.hour, count |-> l.count])]
           /\ phase' = Drawn(l.draws)
    /\ iLoop' = iLoop + 1
    /\ UNCHANGED <<now, tzOffset, wallClock, seed, pc, daysAgo, numBrews, brews, samples,
                   summaries>>
    /\ UNCHANGED ctlVars
    /\ UNCHANGED uiVars

\* generateHourlyDistribution returns.
HourlyReturn ==
    /\ pc = "hourlyLoop"
    /\ iLoop = 24
    /\ pc' = "hourlyDone"
    /\ UNCHANGED <<now, tzOffset, wallClock, seed, phase, daysAgo, iLoop, numBrews, locals,
                   brews, samples, summaries, charts>>
    /\ UNCHANGED ctlVars
    /\ UNCHANGED uiVars

InitCharts == InitGen({"weeklyStart"}, SeedLen)
NextCharts ==
    \/ WeeklyStart
    \/ WeeklyEntry
    \/ HourlyStart
    \/ HourlyEntry
    \/ HourlyReturn
SpecCharts == InitCharts /\ [][NextCharts]_vars

\* C15: the weekly data holds exactly 7 entries, Mon to Sun in that order, each
\* with shots >= 1; the hourly distribution holds exactly 24 entries with
\* hours 0..23 ascending, each with count >= 0.
C15_ChartShapes ==
    /\ pc \in {"hourlyLoop", "hourlyDone"} =>
          /\ Len(charts.weekly) = 7
          /\ \A k \in 1..7 :
                charts.weekly[k].day = <<"Mon", "Tue", "Wed", "Thu", "Fri", "Sat", "Sun">>[k]
    /\ pc \in {"weeklyMap", "hourlyLoop", "hourlyDone"} =>
          \A k \in 1..Len(charts.weekly) : charts.weekly[k].shots >= 1
    /\ pc = "hourlyDone" => Len(charts.hourlyDistribution) = 24
    /\ pc \in {"hourlyLoop", "hourlyDone"} =>
          \A k \in 1..Len(charts.hourlyDistribution) :
             /\ charts.hourlyDistribution[k].hour = k - 1
             /\ charts.hourlyDistribution[k].count >= 0
C15_Witness ==
    /\ pc = "hourlyDone"
    /\ Len(charts.weekly) = 7
    /\ Len(charts.hourlyDistribution) = 24
    /\ locals.baseCount = 0
    /\ locals.variance = -1
    /\ charts.hourlyDistribution[24].count = 0
    /\ \E k \in 1..24 : charts.hourlyDistribution[k].count > 15
    /\ \E k \in 1..7 : charts.weekly[k].shots = 2

\* The getDay() value of the entry at position k (1-based) of the weekly data.
WeekdayOfEntry(k) == k % 7

\* C22: in the weekly data exactly one of the seven entries is the current
\* weekday's (position i, 0-based, stands for getDay() value (i + 1) mod 7) and
\* its shots is 3; every other entry is its base (5 on Sat and Sun, 3 otherwise)
\* plus a jitter in {-1, 0, 1}, and the floor at 1 never decides the value.
C22_WeeklyTodayExact ==
    /\ pc \in {"hourlyLoop", "hourlyDone"} =>
          Cardinality({k \in 1..7 : WeekdayOfEntry(k) = GetDay(wallClock)}) = 1
    /\ pc \in {"weeklyMap", "hourlyLoop", "hourlyDone"} =>
          \A k \in 1..Len(charts.weekly) :
             IF WeekdayOfEntry(k) = GetDay(wallClock)
             THEN charts.weekly[k].shots = 3
             ELSE /\ charts.weekly[k].shots
                        - (IF charts.weekly[k].day \in {"Sat", "Sun"} THEN 5 ELSE 3) \in {-1, 0, 1}
                  /\ charts.weekly[k].shots >= 2
    /\ (pc = "weeklyMap" /\ iLoop >= 1 /\ ~locals.isToday) =>
          /\ locals.variance \in {-1, 0, 1}
          /\ charts.weekly[iLoop].shots = locals.baseShots + locals.variance
C22_Witness ==
    /\ pc = "hourlyLoop"
    /\ iLoop = 0
    /\ GetDay(wallClock) = 6
    /\ charts.weekly[6].day = "Sat"
    /\ charts.weekly[6].shots = 3
    /\ charts.weekly[7].shots = 6
    /\ \E k \in 1..5 : charts.weekly[k].shots = 2

\* The range the day-shot-count of day d is drawn from.
DayTypeRange(d) ==
    LET w == GetDay(now - d * 86400) IN
    IF d = 0 THEN 3..5
    ELSE IF w \in {0, 6} THEN 4..7
    ELSE IF w = 5 THEN 3..5
    ELSE 2..5

\* What is left of generateBrewHistory to run: days to open, then shots to push.
BrewMeasure ==
    IF pc = "brewDone" THEN 0
    ELSE 1 + (21 - daysAgo) * 9 + (IF pc = "brewShot" THEN numBrews - iLoop ELSE 8)

\* C23: each of the 21 days contributes no record (only when daysAgo > 0) or a
\* number of records in its day-type range (today 3-5, weekend 4-7, Friday 3-5,
\* other weekday 2-5); the returned list holds at least 3 and at most 147
\* records; and the generation terminates: until it has returned, the loop
\* conditions leave a step to take (daysAgo <= 21, and i < numBrews inside the
\* shot loop), and every step lowers a natural-number measure.
C23_BrewHistorySize ==
    /\ [](/\ (pc \in {"brewDay", "brewShot"} /\ locals.kind = "day") =>
                /\ locals.numBrews \in DayTypeRange(locals.daysAgo)
                /\ locals.skipped => locals.daysAgo > 0
          /\ pc = "brewShot" =>
                /\ numBrews \in DayTypeRange(daysAgo)
                /\ iLoop < numBrews
          /\ pc \in {"brewDay", "brewShot"} =>
                /\ daysAgo \in 0..21
                /\ Len(brews) <= 7 * daysAgo + (IF pc = "brewShot" THEN iLoop ELSE 0)
                /\ daysAgo >= 1 => Len(brews) >= 3
          /\ pc = "brewDone" => Len(brews) >= 3 /\ Len(brews) <= 147
          /\ BrewMeasure \in Nat)
    /\ [][BrewMeasure' < BrewMeasure]_vars
C23_Witness ==
    /\ pc = "brewDone"
    /\ Len(brews) >= 3
    /\ Len(brews) < 3 + 20 * 2
    /\ \E k \in 1..(Len(brews) - 6) : brews[k].timestamp - brews[k + 6].timestamp < 86400

\* The parameters of a query string as the reader sees them: in order, each
\* name with its value (empty when the parameter has none).
ParamStarts(search) ==
    {i \in 2..Len(search) : search[i - 1] \in {"?", "&"} /\ search[i] \notin {"?", "&", "="}}
ParamValueAt(search, i) ==
    IF i + 2 <= Len(search) /\ search[i + 1] = "=" /\ search[i + 2] # "&"
    THEN search[i + 2] ELSE ""
ParamsSeen(search) ==
    LET S == ParamStarts(search)
        at(k) == CHOOSE i \in S : Cardinality({j \in S : j < i}) = k - 1
    IN  [k \in 1..Cardinality(S) |->
            [name |-> search[at(k)], value |-> ParamValueAt(search, at(k))]]
ExitStripped(op) ==
    /\ last.op = op
    /\ CarriesTrue(last.pre.location.search, "exitDemo")

\* C24: when initDemoModeFromUrl() or isDemoMode() strips exitDemo, the
\* rewritten location has the same pathname and every other parameter with its
\* value, in order (a demo=true parameter included); no exitDemo parameter
\* remains; and the query string is empty, without "?", when no parameter remains.
C24_ExitRewriteFrame ==
    (ExitStripped("initDemoModeFromUrl") \/ ExitStripped("isDemoMode")) =>
        LET kept == SelectSeq(ParamsSeen(last.pre.location.search),
                              LAMBDA p : p.name # "exitDemo")
        IN  /\ location.pathname = last.pre.location.pathname
            /\ ParamsSeen(location.search) = kept
            /\ kept = <<>> => location.search = <<>>
            /\ kept # <<>> => Head(location.search) = "?"
C24_Witness ==
    /\ ExitStripped("initDemoModeFromUrl")
    /\ ParamsSeen(last.pre.location.search) =
          <<[name |-> "exitDemo", value |-> "true"], [name |-> "demo", value |-> "true"]>>
    /\ ParamsSeen(location.search) = <<[name |-> "demo", value |-> "true"]>>
    /\ location.pathname = "/stats"
    /\ FlagAbsent(localStorage)

\* The parameter is present but its (first) value is not exactly "true".
NotTheSentinel(search, name) == HasParam(search, name) /\ ~CarriesTrue(search, name)
VoidResult(op, b) == IF op = "isDemoMode" THEN BoolString(b) ELSE "undefined"

\* C25: only the exact value "true" counts.  A call of initDemoModeFromUrl() or
\* isDemoMode() on a location where demo or exitDemo has another value ("1",
\* "false", "TRUE", empty, none) goes as if that parameter were not there: with
\* no "true" parameter beside it, store, location and history are unchanged and
\* isDemoMode() returns the durable flag; beside exitDemo=true the exit is
\* taken and the other parameter stays in the location; beside demo=true the
\* flag is set and the location is unchanged.
C25_SentinelExactness ==
    ( /\ last.op \in {"initDemoModeFromUrl", "isDemoMode"}
      /\ \/ NotTheSentinel(last.pre.location.search, "demo")
         \/ NotTheSentinel(last.pre.location.search, "exitDemo") )
    => LET q == last.pre.location.search IN
       IF CarriesTrue(q, "exitDemo")
       THEN /\ FlagAbsent(localStorage)
            /\ last.result = VoidResult(last.op, FALSE)
            /\ HasParam(location.search, "demo")
            /\ ~CarriesTrue(location.search, "demo")
       ELSE IF CarriesTrue(q, "demo")
       THEN /\ FlagSet(localStorage)
            /\ last.result = VoidResult(last.op, TRUE)
            /\ location = last.pre.location
            /\ historyLength = last.pre.length
       ELSE /\ localStorage = last.pre.store
            /\ location = last.pre.location
            /\ historyLength = last.pre.length
            /\ last.result = VoidResult(last.op, FlagSet(last.pre.store))
C25_Witness ==
    /\ prev.op = "initDemoModeFromUrl"
    /\ last.op = "isDemoMode"
    /\ last.pre.location.search = <<"?", "demo", "=", "TRUE">>
    /\ prev.pre.location = last.pre.location
    /\ FlagAbsent(prev.pre.store)
    /\ FlagAbsent(localStorage)
    /\ last.result = "false"
    /\ location = last.pre.location

\* C26: the banner's default exit does not end demo mode by itself.  Without an
\* onExit callback, handleExit sends the page to the bare pathname (no query
\* string, hence neither demo nor exitDemo) and leaves the store as it was; so
\* when the flag was set before the click, the next isDemoMode() returns true.
C26_DefaultExitKeepsDemo ==
    /\ last.op = "handleExit()" =>
          /\ location.pathname = last.pre.location.pathname
          /\ location.search = <<>>
          /\ ~HasParam(location.search, "demo")
          /\ ~HasParam(location.search, "exitDemo")
          /\ localStorage = last.pre.store
    /\ (prev.op = "handleExit()" /\ last.op = "isDemoMode" /\ FlagSet(prev.pre.store)) =>
          /\ last.result = "true"
          /\ FlagSet(localStorage)
C26_Witness ==
    /\ prev.op = "handleExit()"
    /\ last.op = "isDemoMode"
    /\ FlagSet(prev.pre.store)
    /\ CarriesTrue(prev.pre.location.search, "demo")
    /\ prev.post.location.search = <<>>
    /\ prev.post.length = prev.pre.length + 1
    /\ last.result = "true"
    /\ FlagSet(localStorage)

(***************************************************************************)
(* getDemoLogs                                                             *)
(* An instant in milliseconds since the epoch is the pair [s, ms] of its   *)
(* whole seconds and the milliseconds beyond them; every offset the code   *)
(* subtracts is a whole number of seconds.  An ISO string                  *)
(* YYYY-MM-DDTHH:mm:ss.sssZ is the tuple of its seven numeric fields: its  *)
(* fields have fixed widths, so strings compare as the tuples do.          *)
(***************************************************************************)
MaxCalls == 3

\* now - k * oneMinute - ..., in seconds before now, in the order of the array.
LogOffsets_repeated == <<300, 240, 210, 180, 150, 120, 90, 60, 60, 10>>
LogOffsets == <<300, 240, 210, 180, 150, 120, 90, 60, 30, 10>>

LogTexts ==
    << [message |-> "Machine powered on", source |-> "esp32"],
       [message |-> "WiFi connected to 'HomeNetwork' (192.168.1.100)", source |-> "esp32"],
       [message |-> "Pico controller connected", source |-> "esp32"],
       [message |-> "Heating started - target: 93.0°C", source |-> "pico"],
       [message |-> "Boiler temperature: 85.2°C", source |-> "pico"],
       [message |-> "Boiler temperature: 90.1°C", source |-> "pico"],
       [message |-> "Target temperature reached: 93.0°C", source |-> "pico"],
       [message |-> "Brewing started", source |-> "pico"],
       [message |-> "Brewing stopped - shot time: 28s", source |-> "pico"],
       [message |-> "System idle - maintaining temperature", source |-> "pico"] >>

\* The civil date of a day number (days since 1970-01-01), proleptic Gregorian.
CivilFromDays(z0) ==
    LET z   == z0 + 719468
        era == z \div 146097
        doe == z - era * 146097
        yoe == (doe - doe \div 1460 + doe \div 36524 - doe \div 146096) \div 365
        doy == doe - (365 * yoe + yoe \div 4 - yoe \div 100)
        mp  == (5 * doy + 2) \div 153
        d   == doy - (153 * mp + 2) \div 5 + 1
        m   == IF mp < 10 THEN mp + 3 ELSE mp - 9
        y   == yoe + era * 400 + (IF m <= 2 THEN 1 ELSE 0)
    IN  <<y, m, d>>

\* new Date(t).toISOString()
toISOString(t) ==
    CivilFromDays(t.s \div 86400)
        \o <<(t.s % 86400) \div 3600, (t.s % 3600) \div 60, t.s % 60, t.ms>>

\* getDemoLogs() called at the instant `at` = Date.now().
getDemoLogs(at) ==
    [k \in 1..Len(LogOffsets) |->
        LET t == [s |-> at.s - LogOffsets[k], ms |-> at.ms] IN
        [id      |-> t,
         time    |-> toISOString(t),
         level   |-> "info",
         message |-> LogTexts[k].message,
         source  |-> LogTexts[k].source]]

\* Date.now() at the calls: around a change of minute, of day and of month in a
\* leap year, and the module-load instants of the statistics.
LogSeconds == {1709251140, 1709251200, 1709251320, 1761897600, 1762127233}
LogMillis == {0, 1, 999}

InitLogs ==
    /\ CtlIdle
    /\ LayoutIdle
    /\ MeterIdle
    /\ now = 0
    /\ tzOffset = 0
    /\ wallClock \in LogSeconds
    /\ wallMillis \in LogMillis
    /\ seed = <<0>>
    /\ phase = 0
    /\ pc = "idle"
    /\ daysAgo = 0
    /\ iLoop = 0
    /\ numBrews = 0
    /\ locals = [kind |-> "none"]
    /\ brews = <<>>
    /\ samples = <<>>
    /\ summaries = <<>>
    /\ charts = <<>>
    /\ logs = <<>>
    /\ earlier = <<>>
    /\ stats = <<>>

\* A caller asks for the logs; it keeps what it was given before.  `at` is the
\* instant of the call.
GetDemoLogs ==
    /\ Len(earlier) + 1 < MaxCalls
    /\ logs' = [at |-> [s |-> wallClock, ms |-> wallMillis],
                entries |-> getDemoLogs([s |-> wallClock, ms |-> wallMillis])]
    /\ earlier' = IF logs = <<>> THEN earlier ELSE Append(earlier, logs)
    /\ UNCHANGED <<wallMillis, stats, layoutVars, meterVars>>
    /\ UNCHANGED ctlVars
    /\ UNCHANGED genVars

\* Time passes.
Elapse ==
    /\ \E s \in LogSeconds, ms \in LogMillis :
          /\ s > wallClock \/ (s = wallClock /\ ms > wallMillis)
          /\ wallClock' = s
          /\ wallMillis' = ms
    /\ UNCHANGED <<now, tzOffset, seed, phase, pc, daysAgo, iLoop, numBrews, locals,
                   brews, samples, summaries, charts>>
    /\ UNCHANGED <<logs, earlier, stats, layoutVars, meterVars>>
    /\ UNCHANGED ctlVars

NextLogs ==
    \/ GetDemoLogs
    \/ Elapse
SpecLogs == InitLogs /\ [][NextLogs]_vars

\* a < b for two ISO strings of the same format, field by field.
RECURSIVE IsoBefore(_, _)
IsoBefore(a, b) ==
    IF a = <<>> \/ b = <<>> THEN FALSE
    ELSE \/ Head(a) < Head(b)
         \/ (Head(a) = Head(b) /\ IsoBefore(Tail(a), Tail(b)))

\* The instant an ISO string names: the days from 1970-01-01 to its date,
\* counted year by year and month by month, then its time of day.
IsLeap(y) == (y % 4 = 0 /\ y % 100 # 0) \/ y % 400 = 0
DaysInMonth(y, m) ==
    IF m = 2 THEN (IF IsLeap(y) THEN 29 ELSE 28)
    ELSE IF m \in {4, 6, 9, 11} THEN 30 ELSE 31
RECURSIVE DaysBeforeYear(_)
DaysBeforeYear(y) ==
    IF y <= 1970 THEN 0
    ELSE DaysBeforeYear(y - 1) + (IF IsLeap(y - 1) THEN 366 ELSE 365)
RECURSIVE DaysBeforeMonth(_, _)
DaysBeforeMonth(y, m) ==
    IF m <= 1 THEN 0 ELSE DaysBeforeMonth(y, m - 1) + DaysInMonth(y, m - 1)
InstantOfIso(t) ==
    [s  |-> (DaysBeforeYear(t[1]) + DaysBeforeMonth(t[1], t[2]) + t[3] - 1) * 86400
            + t[4] * 3600 + t[5] * 60 + t[6],
     ms |-> t[7]]
IsIsoString(t) ==
    /\ Len(t) = 7
    /\ t[2] \in 1..12 /\ t[3] \in 1..DaysInMonth(t[1], t[2])
    /\ t[4] \in 0..23 /\ t[5] \in 0..59 /\ t[6] \in 0..59 /\ t[7] \in 0..999
InstantBefore(a, b) == a.s < b.s \/ (a.s = b.s /\ a.ms < b.ms)

\* What C21 says of one returned array, called at the instant `at`.
LogsWellFormed(entries, at) ==
    /\ Len(entries) = 10
    /\ \A k \in 1..Len(entries) :
          /\ {"level", "message", "source"} \subseteq DOMAIN entries[k]
          /\ entries[k].level # "" /\ entries[k].message # "" /\ entries[k].source # ""
          /\ IsIsoString(entries[k].time)
          /\ ~InstantBefore(InstantOfIso(entries[k].time), [s |-> at.s - 300, ms |-> at.ms])
          /\ ~InstantBefore(at, InstantOfIso(entries[k].time))
    /\ \A k \in 1..(Len(entries) - 1) : IsoBefore(entries[k].time, entries[k + 1].time)
    /\ \A j, k \in 1..Len(entries) : j # k => entries[j].id # entries[k].id

\* C21 (as stated): getDemoLogs() returns exactly ten entries with level,
\* message and source, with strictly increasing times within the 5 minutes
\* before the call and pairwise distinct ids; and the sequence is fixed: calls
\* at different wall-clock times return the same entries.
C21_LogsFixed ==
    logs # <<>> =>
        /\ LogsWellFormed(logs.entries, logs.at)
        /\ \A c \in 1..Len(earlier) : earlier[c].entries = logs.entries
\* C21 (amended): getDemoLogs() returns exactly ten entries with level, message
\* and source, with strictly increasing times within the 5 minutes before the
\* call and pairwise distinct ids; level, message and source are the same at
\* every call, while id and time are taken from Date.now() at each call: two
\* calls return the same entries only when made at the same millisecond, and
\* otherwise every id and time is shifted by the time between the calls.
C21_LogsRelativeToCall ==
    logs # <<>> =>
        /\ LogsWellFormed(logs.entries, logs.at)
        /\ \A c \in 1..Len(earlier) :
              /\ LogsWellFormed(earlier[c].entries, earlier[c].at)
              /\ (earlier[c].entries = logs.entries) <=> (earlier[c].at = logs.at)
              /\ \A k \in 1..10 :
                    /\ earlier[c].entries[k].level = logs.entries[k].level
                    /\ earlier[c].entries[k].message = logs.entries[k].message
                    /\ earlier[c].entries[k].source = logs.entries[k].source
                    /\ logs.entries[k].id.s - earlier[c].entries[k].id.s
                          = logs.at.s - earlier[c].at.s
                    /\ logs.entries[k].id.ms = logs.at.ms
                    /\ InstantOfIso(logs.entries[k].time) = logs.entries[k].id
C21_Witness ==
    /\ Len(earlier) = 2
    /\ earlier[1].at = earlier[2].at
    /\ earlier[1].entries = earlier[2].entries
    /\ InstantBefore(earlier[2].at, logs.at)
    /\ logs.entries # earlier[2].entries
    /\ logs.entries[1].time = <<2024, 2, 29, 23, 57, 0, 999>>
    /\ logs.entries[10].time = <<2024, 3, 1, 0, 1, 50, 999>>

(***************************************************************************)
(* generateDemoStats, and a caller that asks again later                   *)
(* Units: kWh in 1/100 kWh.                                                *)
(***************************************************************************)
RecallSeedLen == 1

generateDemoStats ==
    [lifetime |->
        [totalShots |-> 1247, totalSteamCycles |-> 234, totalKwh |-> 8930,
         totalOnTimeMinutes |-> 15420, totalBrewTimeMs |-> 35539500,
         avgBrewTimeMs |-> 28500, minBrewTimeMs |-> 18000, maxBrewTimeMs |-> 42000,
         firstShotTimestamp |-> now - 180 * day],
     daily |->
        [shotCount |-> 3, totalBrewTimeMs |-> 85500, avgBrewTimeMs |-> 28500,
         minBrewTimeMs |-> 26000, maxBrewTimeMs |-> 31000, totalKwh |-> 95],
     weekly |->
        [shotCount |-> 28, totalBrewTimeMs |-> 798000, avgBrewTimeMs |-> 28500,
         minBrewTimeMs |-> 22000, maxBrewTimeMs |-> 35000, totalKwh |-> 720],
     monthly |->
        [shotCount |-> 124, totalBrewTimeMs |-> 3534000, avgBrewTimeMs |-> 28500,
         minBrewTimeMs |-> 21000, maxBrewTimeMs |-> 38000, totalKwh |-> 2850],
     maintenance |->
        [shotsSinceBackflush |-> 45, shotsSinceGroupClean |-> 12, shotsSinceDescale |-> 145,
         lastBackflushTimestamp |-> now - 7 * day,
         lastGroupCleanTimestamp |-> now - 2 * day,
         lastDescaleTimestamp |-> now - 30 * day],
     sessionShots |-> 3,
     sessionStartTimestamp |-> now - 2700,
     totalShots |-> 1247,
     totalSteamCycles |-> 234,
     totalKwh |-> 8930,
     totalOnTimeMinutes |-> 15420,
     shotsToday |-> 3,
     kwhToday |-> 95,
     onTimeToday |-> 45,
     shotsSinceDescale |-> 145,
     shotsSinceGroupClean |-> 12,
     shotsSinceBackflush |-> 45,
     lastDescaleTimestamp |-> now - 30 * day,
     lastGroupCleanTimestamp |-> now - 2 * day,
     lastBackflushTimestamp |-> now - 7 * day,
     avgBrewTimeMs |-> 28500,
     minBrewTimeMs |-> 22000,
     maxBrewTimeMs |-> 35000,
     dailyCount |-> 3,
     weeklyCount |-> 28,
     monthlyCount |-> 124]

GenerateDemoStats ==
    /\ pc = "statsCall"
    /\ stats' = generateDemoStats
    /\ pc' = "statsDone"
    /\ UNCHANGED <<now, tzOffset, wallClock, seed, phase, daysAgo, iLoop, numBrews, locals,
                   brews, samples, summaries, charts>>
    /\ UNCHANGED <<wallMillis, logs, earlier, layoutVars, meterVars>>
    /\ UNCHANGED ctlVars

\* What the generator at `done` has returned.
ReturnedAt(done) ==
    CASE done = "brewDone"  -> brews
      [] done = "powerDone" -> samples
      [] done = "dailyDone" -> summaries
      [] OTHER              -> stats
EntryOf(done) ==
    CASE done = "brewDone"  -> "brewDay"
      [] done = "powerDone" -> "powerStart"
      [] done = "dailyDone" -> "dailyLoop"
      [] OTHER              -> "statsCall"

\* The caller keeps what it was given and, a day and an hour, a minute and a
\* second later, calls the same function again: the module stays loaded and
\* the stream of Math.random() goes on.
Recall ==
    /\ pc \in {"brewDone", "powerDone", "dailyDone", "statsDone"}
    /\ Len(earlier) + 1 < MaxCalls
    /\ earlier' = Append(earlier, [fn |-> pc,
                                   at |-> [s |-> wallClock, ms |-> wallMillis],
                                   entries |-> ReturnedAt(pc)])
    /\ wallClock' = wallClock + 90061
    /\ pc' = EntryOf(pc)
    /\ daysAgo' = 0
    /\ iLoop' = 0
    /\ numBrews' = 0
    /\ locals' = [kind |-> "none"]
    /\ brews' = <<>>
    /\ samples' = <<>>
    /\ summaries' = <<>>
    /\ stats' = <<>>
    /\ UNCHANGED <<now, tzOffset, seed, phase, charts>>
    /\ UNCHANGED <<wallMillis, logs, layoutVars, meterVars>>
    /\ UNCHANGED ctlVars

InitFrozen == InitGen({"brewDay", "powerStart", "dailyLoop", "statsCall"}, RecallSeedLen)
NextFrozen ==
    \/ NextBrew
    \/ NextPower
    \/ NextDaily
    \/ GenerateDemoStats
    \/ Recall
SpecFrozen == InitFrozen /\ [][NextFrozen]_vars

\* C28: in the value generateDemoStats() returns, every legacy field equals
\* its structured counterpart: totalShots, totalSteamCycles, totalKwh,
\* totalOnTimeMinutes, avgBrewTimeMs, minBrewTimeMs and maxBrewTimeMs the
\* lifetime fields of the same name; shotsToday and dailyCount daily.shotCount;
\* kwhToday daily.totalKwh; weeklyCount and monthlyCount the weekly and monthly
\* shotCount; shotsSince* and last*Timestamp the maintenance fields of the same name.
C28_LegacyMirrorsStructured ==
    pc = "statsDone" =>
        /\ \A f \in {"totalShots", "totalSteamCycles", "totalKwh", "totalOnTimeMinutes",
                     "avgBrewTimeMs", "minBrewTimeMs", "maxBrewTimeMs"} :
              stats[f] = stats.lifetime[f]
        /\ stats.shotsToday = stats.daily.shotCount
        /\ stats.dailyCount = stats.daily.shotCount
        /\ stats.kwhToday = stats.daily.totalKwh
        /\ stats.weeklyCount = stats.weekly.shotCount
        /\ stats.monthlyCount = stats.monthly.shotCount
        /\ \A f \in {"shotsSinceBackflush", "shotsSinceGroupClean", "shotsSinceDescale",
                     "lastBackflushTimestamp", "lastGroupCleanTimestamp",
                     "lastDescaleTimestamp"} :
              stats[f] = stats.maintenance[f]

\* The timestamps of a returned array, in order.
TimestampsOf(entries) == [k \in 1..Len(entries) |-> entries[k].timestamp]
DatesOf(entries) == [k \in 1..Len(entries) |-> entries[k].date]
EarlierOf(done) == {k \in 1..Len(earlier) : earlier[k].fn = done}

\* C27: every timestamp the four generators return is computed from the one
\* instant captured at module load and not from the time of the call: the
\* power samples are at now - 287 * 300 .. now whatever the wall clock says,
\* the last one at now exactly, and a later call of generatePowerHistory()
\* returns the very timestamps an earlier call returned; the daily dates are
\* the same in every call and each lies within the day before now - daysAgo
\* days; every brew lies in the 21 days before now; the timestamps of
\* generateDemoStats() are now less 180, 7, 2 and 30 days and 2700 seconds.
C27_FrozenReferenceTime ==
    /\ pc = "powerDone" =>
          /\ \A k \in 1..Len(samples) : samples[k].timestamp = now - (288 - k) * 300
          /\ samples[Len(samples)].timestamp = now
          /\ \A c \in EarlierOf("powerDone") :
                TimestampsOf(earlier[c].entries) = TimestampsOf(samples)
    /\ pc = "dailyDone" =>
          /\ \A k \in 1..Len(summaries) :
                /\ summaries[k].date <= now - (30 - k) * 86400
                /\ summaries[k].date > now - (31 - k) * 86400
          /\ \A c \in EarlierOf("dailyDone") : DatesOf(earlier[c].entries) = DatesOf(summaries)
    /\ pc = "brewDone" =>
          \A k \in 1..Len(brews) :
              /\ brews[k].timestamp < now
              /\ brews[k].timestamp >= now - 21 * 86400
    /\ pc = "statsDone" =>
          /\ stats.lifetime.firstShotTimestamp = now - 180 * 86400
          /\ stats.maintenance.lastBackflushTimestamp = now - 7 * 86400
          /\ stats.maintenance.lastGroupCleanTimestamp = now - 2 * 86400
          /\ stats.maintenance.lastDescaleTimestamp = now - 30 * 86400
          /\ stats.sessionStartTimestamp = now - 2700
          /\ \A c \in EarlierOf("statsDone") : earlier[c].entries = stats
C27_Witness ==
    /\ pc = "powerDone"
    /\ Len(samples) = 288
    /\ EarlierOf("powerDone") # {}
    /\ \A c \in EarlierOf("powerDone") : earlier[c].at.s < wallClock
    /\ wallClock > now + 86400
    /\ samples[288].timestamp = now

(***************************************************************************)
(* components/Layout: the header that hides while the page scrolls down    *)
(* The refs and the state of Layout are lastScrollY, hasScrolled and       *)
(* headerVisible; scrollTop is mainScrollRef.current.scrollTop, and the    *)
(* element exists in every layout but the landscape one (lines 226, 325).  *)
(***************************************************************************)
scrollThreshold == 10
ScrollTops == {-20, 0, 5, 50, 81, 90, 95, 200}
RoutePaths == {"/", "/stats", "/settings"}

\* The container the ref points to is rendered.
ContainerMounted == ~isMobileLandscape

\* handleScroll (lines 138-169) on the refs and state l, the container at y.
handleScroll_anyDepth(l, currentScrollY) ==
    IF currentScrollY <= 0
    THEN [headerVisible |-> TRUE, lastScrollY |-> 0, hasScrolled |-> FALSE]
    ELSE LET delta == currentScrollY - l.lastScrollY
             abs   == IF delta < 0 THEN -delta ELSE delta
         IN  IF abs > scrollThreshold
             THEN [headerVisible |-> IF delta > 0 THEN FALSE
                                     ELSE IF delta < 0 THEN TRUE
                                     ELSE l.headerVisible,
                   lastScrollY   |-> currentScrollY,
                   hasScrolled   |-> TRUE]
             ELSE [l EXCEPT !.hasScrolled = TRUE]
handleScroll(l, currentScrollY) ==
    IF currentScrollY <= 0
    THEN [headerVisible |-> TRUE, lastScrollY |-> 0, hasScrolled |-> FALSE]
    ELSE LET scrolled == IF ~l.hasScrolled /\ currentScrollY > 0 THEN TRUE ELSE l.hasScrolled
             delta    == currentScrollY - l.lastScrollY
             abs      == IF delta < 0 THEN -delta ELSE delta
         IN  IF abs > scrollThreshold /\ scrolled
             THEN [headerVisible |-> IF delta > 0 /\ currentScrollY > 80 THEN FALSE
                                     ELSE IF delta < 0 THEN TRUE
                                     ELSE l.headerVisible,
                   lastScrollY   |-> currentScrollY,
                   hasScrolled   |-> scrolled]
             ELSE [l EXCEPT !.hasScrolled = scrolled]

\* Layout has mounted at "/": both effects have run, the scroll effect first.
InitLayout ==
    /\ CtlIdle
    /\ GenIdle
    /\ CallIdle
    /\ MeterIdle
    /\ isMobile \in BOOLEAN
    /\ isMobileLandscape \in (IF isMobile THEN BOOLEAN ELSE {FALSE})
    /\ listening = (isMobile /\ ~isMobileLandscape)
    /\ headerVisible = TRUE
    /\ lastScrollY = 0
    /\ hasScrolled = FALSE
    /\ scrollTop = 0
    /\ routePath = "/"
    /\ lastEvent = [type |-> "none"]

\* The container is scrolled to y, by the user or by a frame of a smooth
\* scroll; its scroll event reaches handleScroll when the listener is attached.
Scroll ==
    /\ ContainerMounted
    /\ \E y \in ScrollTops :
          /\ scrollTop' = y
          /\ lastEvent' = [type |-> "scroll", scrollTop |-> y,
                           was |-> headerVisible, lastY |-> lastScrollY]
          /\ IF listening
             THEN LET l == handleScroll([headerVisible |-> headerVisible,
                                         lastScrollY   |-> lastScrollY,
                                         hasScrolled   |-> hasScrolled], y)
                  IN  /\ headerVisible' = l.headerVisible
                      /\ lastScrollY' = l.lastScrollY
                      /\ hasScrolled' = l.hasScrolled
             ELSE UNCHANGED <<headerVisible, lastScrollY, hasScrolled>>
    /\ UNCHANGED <<isMobile, isMobileLandscape, listening, routePath>>
    /\ UNCHANGED <<callVars, meterVars>>
    /\ UNCHANGED ctlVars
    /\ UNCHANGED genVars

\* location.pathname changes: the route-change effect (lines 180-188).  The
\* container has the class scroll-smooth (line 331): where the browser honours
\* scroll-behavior: smooth, the assignment scrollTop = 0 only starts a scroll,
\* scrollTop is still where it was when the effect ends, and the frames of the
\* animation arrive later as scroll events (Scroll); elsewhere the container
\* is at the top at once.
RouteChange ==
    /\ \E p \in RoutePaths \ {routePath} : routePath' = p
    /\ headerVisible' = TRUE
    /\ hasScrolled' = FALSE
    /\ IF ContainerMounted
       THEN /\ \E smooth \in BOOLEAN : scrollTop' = IF smooth THEN scrollTop ELSE 0
            /\ lastScrollY' = 0
       ELSE UNCHANGED <<scrollTop, lastScrollY>>
    /\ lastEvent' = [type |-> "route", scrollTop |-> scrollTop',
                     was |-> headerVisible, lastY |-> lastScrollY]
    /\ UNCHANGED <<isMobile, isMobileLandscape, listening>>
    /\ UNCHANGED <<callVars, meterVars>>
    /\ UNCHANGED ctlVars
    /\ UNCHANGED genVars

\* The phone is turned: isMobileLandscape changes, the other layout is rendered
\* (a new container, at the top, in portrait; none in landscape), the cleanup
\* of the scroll effect removes the listener and the effect runs again
\* (lines 124-136, 171-177).
Rotate ==
    /\ isMobile
    /\ isMobileLandscape' = ~isMobileLandscape
    /\ scrollTop' = 0
    /\ IF isMobileLandscape'
       THEN /\ listening' = FALSE
            /\ UNCHANGED <<headerVisible, lastScrollY, hasScrolled>>
       ELSE /\ listening' = TRUE
            /\ headerVisible' = TRUE
            /\ lastScrollY' = 0
            /\ hasScrolled' = FALSE
    /\ lastEvent' = [type |-> "rotate", scrollTop |-> 0,
                     was |-> headerVisible, lastY |-> lastScrollY]
    /\ UNCHANGED <<isMobile, routePath>>
    /\ UNCHANGED <<callVars, meterVars>>
    /\ UNCHANGED ctlVars
    /\ UNCHANGED genVars

NextLayout ==
    \/ Scroll
    \/ RouteChange
    \/ Rotate
SpecLayout == InitLayout /\ [][NextLayout]_vars

\* Layout is shown on a phone held upright.
MobilePortrait == isMobile /\ ~isMobileLandscape

\* C29: on a phone in portrait, a hidden header means that the most recent
\* event was a scroll that saw a position above 0; a scroll that saw a position
\* of 0 or less, and a route change, leave the header visible; and an event
\* that found the header visible and left it hidden was a scroll that saw a
\* position above 80 and more than 10 above the last recorded position.
C29_ScrollDrivenHeader ==
    MobilePortrait =>
        /\ ~headerVisible => lastEvent.type = "scroll" /\ lastEvent.scrollTop > 0
        /\ lastEvent.type = "scroll" /\ lastEvent.scrollTop <= 0 => headerVisible
        /\ lastEvent.type = "route" => headerVisible
        /\ (lastEvent.type # "none" /\ lastEvent.was /\ ~headerVisible) =>
              /\ lastEvent.type = "scroll"
              /\ lastEvent.scrollTop > 80
              /\ lastEvent.scrollTop - lastEvent.lastY > 10
\* The header was hidden by a scroll past 80 and a later, small scroll upwards
\* has left it hidden.
C29_Witness ==
    /\ MobilePortrait
    /\ ~headerVisible
    /\ lastEvent.type = "scroll"
    /\ ~lastEvent.was
    /\ lastEvent.scrollTop > 80
    /\ lastEvent.scrollTop < lastEvent.lastY
    /\ lastScrollY = lastEvent.lastY
    /\ routePath # "/"

(***************************************************************************)
(* PowerMeterSettings: the MQTT test and its in-flight flag                *)
(* clock counts seconds since the component mounted.  tests lists the      *)
(* test_power_meter commands sent, each with the time of sending and       *)
(* whether its power_meter_test_result event has been dispatched; timers   *)
(* holds the pending setTimeout callbacks, which nothing ever cancels.     *)
(***************************************************************************)
TestTimeout == 20
MaxTests == 2
MaxClock == 45
Topics == {"", "home/power"}
Steps == {2, 5, 13}

\* The earliest pending timer, or the horizon when none is pending.
NextTimer ==
    IF timers = {} THEN MaxClock
    ELSE (CHOOSE t \in timers : \A u \in timers : t.at <= u.at).at
Earlier(a, b) == IF a < b THEN a ELSE b

\* The user edits the topic field: setMqttTopic.
SetTopic ==
    /\ \E t \in Topics \ {mqttTopic} : mqttTopic' = t
    /\ UNCHANGED <<testing, clock, timers, tests, lastTest>>
    /\ UNCHANGED <<callVars, layoutVars>>
    /\ UNCHANGED ctlVars
    /\ UNCHANGED genVars

\* handleTestMqtt (lines 122-132).
HandleTestMqtt ==
    /\ Len(tests) < MaxTests
    /\ IF testing \/ mqttTopic = ""
       THEN /\ lastTest' = [sent |-> FALSE, testing |-> testing, topic |-> mqttTopic]
            /\ UNCHANGED <<testing, timers, tests>>
       ELSE /\ testing' = TRUE
            /\ tests' = Append(tests, [at |-> clock, answered |-> FALSE])
            /\ timers' = timers \cup {[test |-> Len(tests) + 1, at |-> clock + TestTimeout]}
            /\ lastTest' = [sent |-> TRUE, testing |-> testing, topic |-> mqttTopic]
    /\ UNCHANGED <<mqttTopic, clock>>
    /\ UNCHANGED <<callVars, layoutVars>>
    /\ UNCHANGED ctlVars
    /\ UNCHANGED genVars

\* The result of test k is dispatched on window: handleTestResult (lines 82-85).
ResultArrives ==
    /\ \E k \in 1..Len(tests) :
          /\ ~tests[k].answered
          /\ tests' = [tests EXCEPT ![k].answered = TRUE]
    /\ testing' = FALSE
    /\ UNCHANGED <<mqttTopic, clock, timers, lastTest>>
    /\ UNCHANGED <<callVars, layoutVars>>
    /\ UNCHANGED ctlVars
    /\ UNCHANGED genVars

\* A timer set at line 131 is due: () => setTesting(false).
TimerFires ==
    /\ \E t \in timers :
          /\ t.at <= clock
          /\ timers' = timers \ {t}
    /\ testing' = FALSE
    /\ UNCHANGED <<mqttTopic, clock, tests, lastTest>>
    /\ UNCHANGED <<callVars, layoutVars>>
    /\ UNCHANGED ctlVars
    /\ UNCHANGED genVars

\* Time passes, but never beyond a timer that is due.
Tick ==
    /\ clock < Earlier(NextTimer, MaxClock)
    /\ \E d \in Steps : clock' = Earlier(clock + d, Earlier(NextTimer, MaxClock))
    /\ UNCHANGED <<testing, mqttTopic, timers, tests, lastTest>>
    /\ UNCHANGED <<callVars, layoutVars>>
    /\ UNCHANGED ctlVars
    /\ UNCHANGED genVars

InitMeter ==
    /\ CtlIdle
    /\ GenIdle
    /\ CallIdle
    /\ LayoutIdle
    /\ MeterIdle
NextMeter ==
    \/ SetTopic
    \/ HandleTestMqtt
    \/ ResultArrives
    \/ TimerFires
    \/ Tick
SpecMeter == InitMeter /\ [][NextMeter]_vars

\* C30: handleTestMqtt sends only when testing was false and the topic is not
\* empty; and while the result of the test started last has not arrived and
\* fewer than 20 seconds have passed since that test started, testing is true,
\* so that the timer of an earlier test does not clear the flag of a later one.
C30_TestInFlight ==
    /\ lastTest.sent => ~lastTest.testing /\ lastTest.topic # ""
    /\ tests # <<>> =>
          LET t == tests[Len(tests)]
          IN  (~t.answered /\ clock < t.at + 20) => testing

====
